---- MODULE Spec2Model ----
(***************************************************************************)
(* TFTPy: the transfer loops of src/src/tftp.py and src/src/server.py      *)
(* (server_send_file, server_receive_file, client_get_file,                *)
(* client_put_file, send_dir) as state machines.  One step of a loop is    *)
(* everything the code does between two returns of recvfrom: decode the    *)
(* datagram, update the locals and the file, send the replies.             *)
(*                                                                         *)
(* Payload bytes are only ever copied, so a byte string is modelled as a   *)
(* sequence of slices [src, off, len] of a named byte stream; adjacent     *)
(* slices of one stream merge, which makes "same bytes" an equality.       *)
(***************************************************************************)
EXTENDS Integers, Sequences, FiniteSets, TLC

(* ------------------------------------------------------------------ *)
(* Protocol constants (tftp.py:61-65, 71-86)                          *)
(* ------------------------------------------------------------------ *)
MAX_DATA_LEN == 512
MAX_RETRIES == 5
DEFAULT_BUFFER_SIZE == 8192
RRQ == 1
WRQ == 2
DATA == 3
ACK == 4
ERROR == 5
OACK == 6
MaxBlockNumber == 65535

\* TFTPError (tftp.py:96-105)
FILE_NOT_FOUND == 1
ACCESS_VIOLATION == 2
ILLEGAL_OPERATION == 4
FILE_EXISTS == 6

(* ------------------------------------------------------------------ *)
(* Bounds of the model                                                 *)
(* ------------------------------------------------------------------ *)
\* full-size blocks a receive loop is offered in sequence in one run,
\* and full-size blocks of the source a send loop reads in one run
MaxFullBlocks == 2
\* datagrams that arrive at a session after it has ended
MaxLate == 1

\* lengths of the last, short block of a source
TailLens == {0, 488}
\* payload lengths a peer puts into a DATA packet
PeerLens == {0, 488, MAX_DATA_LEN}
\* first block of a run: a fresh transfer, or one that has already moved
\* 65533 full blocks (so that the 16-bit block number wraps within the run)
StartBlocks == {1, MaxBlockNumber - 1}

Fns == {"server_send_file", "server_receive_file", "client_get_file",
        "client_put_file", "send_dir"}

(* ------------------------------------------------------------------ *)
(* Byte strings                                                        *)
(* ------------------------------------------------------------------ *)
Sl(s, o, n) == IF n = 0 THEN <<>> ELSE <<[src |-> s, off |-> o, len |-> n]>>

RECURSIVE BLen(_)
BLen(b) == IF b = <<>> THEN 0 ELSE Head(b).len + BLen(Tail(b))

\* b1 + b2 on bytes
Cat(b1, b2) ==
    IF b1 = <<>> THEN b2
    ELSE IF b2 = <<>> THEN b1
    ELSE LET l == b1[Len(b1)]
             h == Head(b2)
         IN IF l.src = h.src /\ l.off + l.len = h.off
            THEN SubSeq(b1, 1, Len(b1) - 1)
                 \o <<[src |-> l.src, off |-> l.off, len |-> l.len + h.len]>>
                 \o Tail(b2)
            ELSE b1 \o b2

Min(a, b) == IF a < b THEN a ELSE b

\* mutant: every read starts at the beginning of the file
Read_mut(pos, total, n) == Sl("stream", 0, Min(n, total - pos))

\* f.read(n) at position pos of a file holding the first total bytes of "stream"
Read(pos, total, n) == Sl("stream", pos, Min(n, total - pos))

(* ------------------------------------------------------------------ *)
(* Files                                                               *)
(* ------------------------------------------------------------------ *)
NoFile == [exists |-> FALSE, content |-> <<>>]
File(c) == [exists |-> TRUE, content |-> c]
OldFile == File(Sl("old", 0, 7))

\* open(path, 'wb'): create or truncate
OpenWB(f) == File(<<>>)
\* f.write(data)
Write(f, data) == File(Cat(f.content, data))

(* ------------------------------------------------------------------ *)
(* Packets: the fields of the wire layout plus the datagram's size     *)
(* ------------------------------------------------------------------ *)
Pkt(op, blk, d, nm, sz) ==
    [opcode |-> op, block |-> blk, data |-> d, name |-> nm, size |-> sz]

NoPkt == Pkt(0, 0, <<>>, <<>>, 0)
NoInput == [kind |-> "none", pkt |-> NoPkt]
Timeout == [kind |-> "timeout", pkt |-> NoPkt]
OSError == [kind |-> "oserror", pkt |-> NoPkt]
Got(p) == [kind |-> "packet", pkt |-> p]

Ok(v) == [exc |-> "", val |-> v]
Raise(e) == [exc |-> e, val |-> 0]

\* string.printable: digits, letters, punctuation and whitespace
Printable == (9 .. 13) \cup (32 .. 126)
is_ascii_printable(txt) == \A i \in 1 .. Len(txt) : txt[i] \in Printable

DEFAULT_MODE == <<111, 99, 116, 101, 116>>

pack_rq(op, filename) ==
    IF ~ is_ascii_printable(filename)
    THEN Raise("TFTPValueError")
    ELSE Ok(Pkt(op, 0, <<>>, filename, 2 + Len(filename) + 1 + Len(DEFAULT_MODE) + 1))

pack_rrq(filename) == pack_rq(RRQ, filename)
pack_wrq(filename) == pack_rq(WRQ, filename)

unpack_opcode(p) ==
    IF p.size < 2 THEN Raise("struct.error")
    ELSE IF p.opcode \in RRQ .. OACK THEN Ok(p.opcode)
    ELSE Raise("TFTPValueError")

pack_dat(block_number, data) ==
    IF BLen(data) > MAX_DATA_LEN THEN Raise("TFTPValueError")
    ELSE IF block_number \notin 0 .. MaxBlockNumber THEN Raise("struct.error")
    ELSE Ok(Pkt(DATA, block_number, data, <<>>, 4 + BLen(data)))

unpack_dat(p) ==
    IF p.size < 4 THEN Raise("struct.error")
    ELSE IF p.opcode # DATA THEN Raise("TFTPValueError")
    ELSE Ok([block |-> p.block, data |-> p.data])

pack_ack(block_number) ==
    IF block_number \notin 0 .. MaxBlockNumber THEN Raise("struct.error")
    ELSE Ok(Pkt(ACK, block_number, <<>>, <<>>, 4))

unpack_ack(p) ==
    IF p.size > 4 THEN Raise("TFTPValueError")
    ELSE IF p.size < 4 THEN Raise("struct.error")
    ELSE Ok(p.block)

unpack_err(p) ==
    IF p.size < 4 THEN Raise("struct.error")
    ELSE IF p.opcode # ERROR THEN Raise("TFTPValueError")
    ELSE Ok(p.block)

(* ------------------------------------------------------------------ *)
(* State                                                               *)
(* ------------------------------------------------------------------ *)
VARIABLES
    fn,           \* the entry point this run executes
    remote_file,  \* its remote_file argument
    src_len,      \* length in bytes of the source a send loop reads
    start_block,  \* block number the run starts at (see StartBlocks)
    srv_file,     \* the server's local_file
    cli_file,     \* the client's local_file
    ssf,          \* locals of server_send_file
    srf,          \* locals of server_receive_file
    cgf,          \* locals of client_get_file
    cpf,          \* locals of client_put_file
    sd,           \* locals of send_dir
    last,         \* the last step of the loop (see Step)
    late,         \* datagrams that arrived after the loop closed its socket
    c2s,          \* datagrams in flight from the client to the server
    s2c,          \* datagrams in flight from the server to the client
    wire,         \* every datagram sent so far, in the order of sending
    request,      \* the datagram main() hands to do_request
    root,         \* names of the files in the server's directory
    dr,           \* do_request: where it is and what it has sent
    srf2,         \* locals of a second, concurrent server_receive_file
    net,          \* whose wait is the older one, whether a retransmission races
                  \* the timer of its receiver, datagrams lost, datagrams duplicated
    listener,     \* main(): where it is and the sockets created so far
    threads,      \* the threads main() has started, one record each
    codec,        \* a value on its way through a pack and an unpack function
    last2,        \* the last step of send_dir when it runs beside another loop
    tid           \* addresses: the peer's, the last sender's, the last receiver's

\* the state of the network, of the dispatcher and of the second session
yvars == <<listener, threads, codec, last2, tid>>
xvars == <<c2s, s2c, wire, request, root, dr, srf2, net, yvars>>

vars == <<fn, remote_file, src_len, start_block, srv_file, cli_file,
          ssf, srf, cgf, cpf, sd, last, late, xvars>>


\* result of one step of a loop: new locals, new local file, packets sent
Res(s, f, out) == [s |-> s, file |-> f, out |-> out]

(* ------------------------------------------------------------------ *)
(* Datagrams a peer may deliver to a receive loop that expects block e *)
(* with flen bytes received so far, nacc of them full blocks of this   *)
(* run.  The payload of block e continues the stream; that of block    *)
(* e-1 repeats the preceding 512 bytes.                                *)
(* ------------------------------------------------------------------ *)
PeerData(b, e, flen, n) ==
    IF b = e - 1 /\ flen >= MAX_DATA_LEN
    THEN Sl("stream", flen - MAX_DATA_LEN, n)
    ELSE Sl("stream", flen, n)

RecvInputs(e, flen, nacc) ==
    {Timeout, OSError}
    \cup {Got(Pkt(DATA, b, PeerData(b, e, flen, n), <<>>, 4 + n)) :
            <<b, n>> \in {x \in ({e - 1, e, e + 1, 0, 1} \cap (0 .. MaxBlockNumber)) \X PeerLens :
                            ~ (x[1] = e /\ x[2] = MAX_DATA_LEN /\ nacc >= MaxFullBlocks)}}
    \cup {Got(Pkt(ACK, e, <<>>, <<>>, 4)),
          Got(Pkt(ERROR, 1, <<>>, <<>>, 20)),
          Got(Pkt(ERROR, 1, <<>>, <<>>, 3)),
          Got(Pkt(RRQ, 0, <<>>, <<102>>, 9)),
          Got(Pkt(DATA, 0, <<>>, <<>>, 3)),
          Got(Pkt(9, 0, <<>>, <<>>, 4)),
          Got(Pkt(0, 0, <<>>, <<>>, 1))}

(* ------------------------------------------------------------------ *)
(* server_receive_file (tftp.py:196-254)                               *)
(* ------------------------------------------------------------------ *)
SrfIdle == [pc |-> "idle", next_block_number |-> 0, success |-> FALSE, exc |-> ""]

\* mutant: the incomplete file is left behind
srf_finally_mut(success, f) == f

\* the finally clause
srf_finally(success, f) == IF ~ success /\ f.exists THEN NoFile ELSE f

\* leaving the try block by return, break or an exception
srf_end(s, pc, exc, f, out) ==
    Res([s EXCEPT !.pc = pc, !.exc = exc], srf_finally(s.success, f), out)

srf_start(s, f) ==
    Res([s EXCEPT !.pc = "recvfrom", !.next_block_number = 1],
        OpenWB(f), <<pack_ack(0).val>>)

\* mutant: a full block ends the transfer too
is_final_mut(data) == BLen(data) <= MAX_DATA_LEN

\* the payload that ends a transfer
is_final(data) == BLen(data) < MAX_DATA_LEN

srf_on_data(s, f, d) ==
    IF d.block = s.next_block_number
    THEN LET f2 == Write(f, d.data)
             out == <<pack_ack(s.next_block_number).val>>
         IN IF is_final(d.data)
            THEN srf_end([s EXCEPT !.success = TRUE], "returned", "", f2, out)
            ELSE Res([s EXCEPT !.next_block_number = @ + 1], f2, out)
    ELSE IF d.block = s.next_block_number - 1
    THEN Res(s, f, <<pack_ack(d.block).val>>)
    ELSE Res(s, f, <<>>)

srf_recv(s, f, inp) ==
    IF inp.kind # "packet"
    THEN srf_end(s, "returned", "", f, <<>>)
    ELSE LET op == unpack_opcode(inp.pkt) IN
         IF op.exc # "" THEN srf_end(s, "raised", op.exc, f, <<>>)
         ELSE IF op.val = DATA
         THEN LET d == unpack_dat(inp.pkt) IN
              IF d.exc # "" THEN srf_end(s, "raised", d.exc, f, <<>>)
              ELSE srf_on_data(s, f, d.val)
         ELSE IF op.val = ERROR
         THEN LET e == unpack_err(inp.pkt) IN
              IF e.exc # "" THEN srf_end(s, "raised", e.exc, f, <<>>)
              ELSE srf_end(s, "returned", "", f, <<>>)
         ELSE Res(s, f, <<>>)

(* ------------------------------------------------------------------ *)
(* client_get_file (tftp.py:264-321)                                   *)
(* ------------------------------------------------------------------ *)
CgfIdle == [pc |-> "idle", next_block_number |-> 0, success |-> FALSE,
            exc |-> "", ret |-> 0]

cgf_finally(success, f) == IF ~ success /\ f.exists THEN NoFile ELSE f

cgf_end(s, pc, exc, f, out) ==
    Res([s EXCEPT !.pc = pc, !.exc = exc], cgf_finally(s.success, f), out)

cgf_start(s, f, name) ==
    LET rqq == pack_rrq(name) IN
    IF rqq.exc # "" THEN cgf_end(s, "raised", rqq.exc, OpenWB(f), <<>>)
    ELSE Res([s EXCEPT !.pc = "recvfrom", !.next_block_number = 1],
             OpenWB(f), <<rqq.val>>)

\* mutant: a repeat of the previous block is written and counted like a new
\* one (the get_file that server.py:129-133 keeps in a comment)
cgf_on_data_mut(s, f, d) ==
    IF d.block # s.next_block_number /\ d.block # s.next_block_number - 1
    THEN cgf_end(s, "raised", "ProtocolError", f, <<>>)
    ELSE LET f2 == Write(f, d.data)
             s2 == [s EXCEPT !.next_block_number = @ + 1]
             out == <<pack_ack(d.block).val>>
         IN IF is_final(d.data)
            THEN cgf_end([s2 EXCEPT !.success = TRUE,
                                    !.ret = d.block * DEFAULT_BUFFER_SIZE + BLen(d.data)],
                         "returned", "", f2, out)
            ELSE Res(s2, f2, out)

cgf_on_data(s, f, d) ==
    IF d.block # s.next_block_number /\ d.block # s.next_block_number - 1
    THEN cgf_end(s, "raised", "ProtocolError", f, <<>>)
    ELSE LET hit == d.block = s.next_block_number
             f2 == IF hit THEN Write(f, d.data) ELSE f
             s2 == IF hit THEN [s EXCEPT !.next_block_number = @ + 1] ELSE s
             out == <<pack_ack(d.block).val>>
         IN IF is_final(d.data)
            THEN cgf_end([s2 EXCEPT !.success = TRUE,
                                    !.ret = d.block * DEFAULT_BUFFER_SIZE + BLen(d.data)],
                         "returned", "", f2, out)
            ELSE Res(s2, f2, out)

cgf_recv(s, f, inp) ==
    IF inp.kind = "timeout" THEN cgf_end(s, "raised", "TimeoutError", f, <<>>)
    ELSE IF inp.kind = "oserror" THEN cgf_end(s, "raised", "OSError", f, <<>>)
    ELSE LET op == unpack_opcode(inp.pkt) IN
         IF op.exc # "" THEN cgf_end(s, "raised", op.exc, f, <<>>)
         ELSE IF op.val = DATA
         THEN LET d == unpack_dat(inp.pkt) IN
              IF d.exc # "" THEN cgf_end(s, "raised", d.exc, f, <<>>)
              ELSE cgf_on_data(s, f, d.val)
         ELSE IF op.val = ERROR
         THEN LET e == unpack_err(inp.pkt) IN
              IF e.exc # "" THEN cgf_end(s, "raised", e.exc, f, <<>>)
              ELSE cgf_end(s, "raised", "Err", f, <<>>)
         ELSE cgf_end(s, "raised", "ProtocolError", f, <<>>)


(* ------------------------------------------------------------------ *)
(* Datagrams a peer may deliver to a send loop whose current block is b *)
(* ------------------------------------------------------------------ *)
SendInputs(b) ==
    {Timeout, OSError}
    \cup {Got(Pkt(ACK, a, <<>>, <<>>, 4)) :
            a \in {b - 1, b, b + 1, 0} \cap (0 .. MaxBlockNumber)}
    \cup {Got(Pkt(ACK, b, <<>>, <<>>, 5)),
          Got(Pkt(ACK, b, <<>>, <<>>, 3)),
          Got(Pkt(ERROR, 1, <<>>, <<>>, 20)),
          Got(Pkt(ERROR, 1, <<>>, <<>>, 3)),
          Got(Pkt(DATA, b, <<>>, <<>>, 4)),
          Got(Pkt(OACK, 0, <<>>, <<>>, 4)),
          Got(Pkt(9, 0, <<>>, <<>>, 4)),
          Got(Pkt(0, 0, <<>>, <<>>, 1))}

\* leaving a send loop by return or by an exception
Leave(s, pc, result, exc) ==
    Res([s EXCEPT !.pc = pc, !.result = result, !.exc = exc], NoFile, <<>>)

(* ------------------------------------------------------------------ *)
(* server_send_file (tftp.py:147-193)                                  *)
(* ------------------------------------------------------------------ *)
SsfIdle == [pc |-> "idle", block_number |-> 0, data_block |-> <<>>,
            attempt |-> 0, pos |-> 0, result |-> "", exc |-> ""]

\* top of the while loop: read a chunk and transmit it for the first time
ssf_block(s, b, total) ==
    LET data_block == Read(s.pos, total, MAX_DATA_LEN)
        dat_packet == pack_dat(b, data_block)
    IN IF dat_packet.exc # "" THEN Leave(s, "raised", "", dat_packet.exc)
       ELSE Res([s EXCEPT !.pc = "recvfrom", !.block_number = b,
                          !.data_block = data_block,
                          !.pos = @ + BLen(data_block), !.attempt = 0],
                NoFile, <<dat_packet.val>>)

ssf_start(s, total) == ssf_block(s, 1, total)

\* mutant: one transmission too many
ssf_continue_mut(s) ==
    IF s.attempt + 1 <= MAX_RETRIES
    THEN Res([s EXCEPT !.attempt = @ + 1], NoFile,
             <<pack_dat(s.block_number, s.data_block).val>>)
    ELSE Leave(s, "returned", "max_retries", "")

\* `continue`: the next iteration of `for attempt in range(MAX_RETRIES)`
ssf_continue(s) ==
    IF s.attempt + 1 < MAX_RETRIES
    THEN Res([s EXCEPT !.attempt = @ + 1], NoFile,
             <<pack_dat(s.block_number, s.data_block).val>>)
    ELSE Leave(s, "returned", "max_retries", "")

\* after the for loop was left by `break`
\* mutant: the acknowledgement of a full block ends the transfer too
ssf_acked_mut(s, total) ==
    IF BLen(s.data_block) <= MAX_DATA_LEN
    THEN Leave(s, "returned", "sent", "")
    ELSE ssf_block(s, (s.block_number % 65535) + 1, total)

\* the current block was acknowledged: done after a short block, else go on
ssf_acked(s, total) ==
    IF BLen(s.data_block) < MAX_DATA_LEN
    THEN Leave(s, "returned", "sent", "")
    ELSE ssf_block(s, (s.block_number % 65535) + 1, total)

\* mutant: any ACK moves the loop on, whatever its block number
ssf_recv_mut(s, inp, total) ==
    IF inp.kind = "timeout" THEN ssf_continue(s)
    ELSE IF inp.kind = "oserror" THEN Leave(s, "returned", "oserror", "")
    ELSE LET op == unpack_opcode(inp.pkt) IN
         IF op.exc # "" THEN Leave(s, "raised", "", op.exc)
         ELSE IF op.val = ACK
         THEN LET ack_block == unpack_ack(inp.pkt) IN
              IF ack_block.exc # "" THEN Leave(s, "raised", "", ack_block.exc)
              ELSE ssf_acked(s, total)
         ELSE IF op.val = ERROR
         THEN LET e == unpack_err(inp.pkt) IN
              IF e.exc # "" THEN Leave(s, "raised", "", e.exc)
              ELSE Leave(s, "returned", "peer_error", "")
         ELSE ssf_continue(s)

ssf_recv(s, inp, total) ==
    IF inp.kind = "timeout" THEN ssf_continue(s)
    ELSE IF inp.kind = "oserror" THEN Leave(s, "returned", "oserror", "")
    ELSE LET op == unpack_opcode(inp.pkt) IN
         IF op.exc # "" THEN Leave(s, "raised", "", op.exc)
         ELSE IF op.val = ACK
         THEN LET ack_block == unpack_ack(inp.pkt) IN
              IF ack_block.exc # "" THEN Leave(s, "raised", "", ack_block.exc)
              ELSE IF ack_block.val = s.block_number THEN ssf_acked(s, total)
              ELSE ssf_continue(s)
         ELSE IF op.val = ERROR
         THEN LET e == unpack_err(inp.pkt) IN
              IF e.exc # "" THEN Leave(s, "raised", "", e.exc)
              ELSE Leave(s, "returned", "peer_error", "")
         ELSE ssf_continue(s)

(* ------------------------------------------------------------------ *)
(* client_put_file (tftp.py:324-390)                                   *)
(* ------------------------------------------------------------------ *)
CpfIdle == [pc |-> "idle", next_block_number |-> 0, data |-> <<>>,
            attempt |-> 0, pos |-> 0, result |-> "", exc |-> ""]

cpf_start(s, name) ==
    LET wrq == pack_wrq(name) IN
    IF wrq.exc # "" THEN Leave(s, "raised", "", wrq.exc)
    ELSE Res([s EXCEPT !.pc = "handshake", !.attempt = 0], NoFile, <<wrq.val>>)

\* mutant: one WRQ too many
cpf_wrq_continue_mut(s, name) ==
    IF s.attempt + 1 <= MAX_RETRIES
    THEN Res([s EXCEPT !.attempt = @ + 1], NoFile, <<pack_wrq(name).val>>)
    ELSE Leave(s, "returned", "max_retries", "")

\* the next iteration of the WRQ loop
cpf_wrq_continue(s, name) ==
    IF s.attempt + 1 < MAX_RETRIES
    THEN Res([s EXCEPT !.attempt = @ + 1], NoFile, <<pack_wrq(name).val>>)
    ELSE Leave(s, "returned", "max_retries", "")

\* top of the while loop: read a chunk, stop at end of file, else transmit
cpf_block(s, b, total) ==
    LET data == Read(s.pos, total, MAX_DATA_LEN)
        dat_packet == pack_dat(b, data)
    IN IF data = <<>>
       THEN Leave([s EXCEPT !.next_block_number = b], "returned", "sent", "")
       ELSE IF dat_packet.exc # "" THEN Leave(s, "raised", "", dat_packet.exc)
       ELSE Res([s EXCEPT !.pc = "recvfrom", !.next_block_number = b,
                          !.data = data, !.pos = @ + BLen(data), !.attempt = 0],
                NoFile, <<dat_packet.val>>)

cpf_handshake(s, inp, name, total) ==
    IF inp.kind = "timeout" THEN cpf_wrq_continue(s, name)
    ELSE IF inp.kind = "oserror" THEN Leave(s, "raised", "", "OSError")
    ELSE LET op == unpack_opcode(inp.pkt) IN
         IF op.exc # "" THEN Leave(s, "raised", "", op.exc)
         ELSE IF op.val = ACK
         THEN LET block_number == unpack_ack(inp.pkt) IN
              IF block_number.exc # "" THEN Leave(s, "raised", "", block_number.exc)
              ELSE IF block_number.val = 0 THEN cpf_block(s, 1, total)
              ELSE cpf_wrq_continue(s, name)
         ELSE IF op.val = ERROR
         THEN LET e == unpack_err(inp.pkt) IN
              IF e.exc # "" THEN Leave(s, "raised", "", e.exc)
              ELSE Leave(s, "returned", "peer_error", "")
         ELSE cpf_wrq_continue(s, name)

\* what the caller gets when the function has ended: the exception that left
\* it or the value returned.  Every `return` of client_put_file is bare and
\* its last statement is a print, so the value is always None.
None == [none |-> TRUE, val |-> 0]
Value(v) == [none |-> FALSE, val |-> v]
cpf_outcome(s) == [exc |-> s.exc, ret |-> None]

cpf_continue(s) ==
    IF s.attempt + 1 < MAX_RETRIES
    THEN Res([s EXCEPT !.attempt = @ + 1], NoFile,
             <<pack_dat(s.next_block_number, s.data).val>>)
    ELSE Leave(s, "returned", "max_retries", "")

cpf_recv(s, inp, total) ==
    IF inp.kind = "timeout" THEN cpf_continue(s)
    ELSE IF inp.kind = "oserror" THEN Leave(s, "raised", "", "OSError")
    ELSE LET op == unpack_opcode(inp.pkt) IN
         IF op.exc # "" THEN Leave(s, "raised", "", op.exc)
         ELSE IF op.val = ACK
         THEN LET ack_block == unpack_ack(inp.pkt) IN
              IF ack_block.exc # "" THEN Leave(s, "raised", "", ack_block.exc)
              ELSE IF ack_block.val = s.next_block_number
              THEN cpf_block(s, (s.next_block_number % 65535) + 1, total)
              ELSE cpf_continue(s)
         ELSE IF op.val = ERROR
         THEN LET e == unpack_err(inp.pkt) IN
              IF e.exc # "" THEN Leave(s, "raised", "", e.exc)
              ELSE Leave(s, "returned", "peer_error", "")
         ELSE cpf_continue(s)

(* ------------------------------------------------------------------ *)
(* send_dir (server.py:46-105)                                         *)
(* ------------------------------------------------------------------ *)
SdIdle == [pc |-> "idle", block_number |-> 0, data |-> <<>>,
           offset |-> 0, result |-> "", exc |-> ""]

\* top of the outer while loop: slice the listing and transmit the slice
sd_block(s, total) ==
    LET data == Read(s.offset, IF s.offset > total THEN s.offset ELSE total, MAX_DATA_LEN)
        dat_packet == pack_dat(s.block_number, data)
    IN IF dat_packet.exc # "" THEN Leave(s, "raised", "", dat_packet.exc)
       ELSE Res([s EXCEPT !.pc = "recvfrom", !.data = data], NoFile, <<dat_packet.val>>)

sd_start(s, total) == sd_block([s EXCEPT !.block_number = 1, !.offset = 0], total)

\* `continue` in the inner `while True`
sd_continue(s) ==
    Res(s, NoFile, <<pack_dat(s.block_number, s.data).val>>)

\* after the inner loop was left by `break`
sd_acked(s, total) ==
    LET s2 == [s EXCEPT !.offset = @ + MAX_DATA_LEN, !.block_number = @ + 1]
    IN IF BLen(s.data) < MAX_DATA_LEN
       THEN Leave(s2, "returned", "sent", "")
       ELSE sd_block(s2, total)

sd_recv(s, inp, total) ==
    IF inp.kind = "timeout" THEN Leave(s, "returned", "timeout", "")
    ELSE IF inp.kind = "oserror" THEN Leave(s, "returned", "oserror", "")
    ELSE LET opcode == unpack_opcode(inp.pkt) IN
         IF opcode.exc # "" THEN Leave(s, "raised", "", opcode.exc)
         ELSE IF opcode.val = ACK
         THEN LET ack_block == unpack_ack(inp.pkt) IN
              IF ack_block.exc # "" THEN Leave(s, "raised", "", ack_block.exc)
              ELSE IF ack_block.val = s.block_number THEN sd_acked(s, total)
              ELSE sd_continue(s)
         ELSE IF opcode.val = ERROR
         THEN LET e == unpack_err(inp.pkt) IN
              IF e.exc # "" THEN Leave(s, "raised", "", e.exc)
              ELSE Leave(s, "returned", "peer_error", "")
         ELSE sd_continue(s)


(* ------------------------------------------------------------------ *)
(* do_request (server.py:199-232) and the request codec                *)
(* (tftp.py:421-438, 476-483).  In a request datagram `name` holds the *)
(* bytes between the opcode and the first NUL; a datagram whose size   *)
(* is below 2 + Len(name) + 1 ends before that NUL.                    *)
(* ------------------------------------------------------------------ *)
\* "Invalid filename." and "Illegal TFTP operation."
InvalidFilenameMsg ==
    <<73, 110, 118, 97, 108, 105, 100, 32, 102, 105, 108, 101, 110, 97, 109, 101, 46>>
IllegalOperationMsg ==
    <<73, 108, 108, 101, 103, 97, 108, 32, 84, 70, 84, 80, 32,
      111, 112, 101, 114, 97, 116, 105, 111, 110, 46>>

pack_err(error_num, error_msg) ==
    IF ~ is_ascii_printable(error_msg) THEN Raise("TFTPValueError")
    ELSE Ok(Pkt(ERROR, error_num, <<>>, error_msg, 4 + Len(error_msg) + 1))

\* bytes.decode(): UTF-8, the one-byte and the two-byte forms; a byte that
\* starts neither raises
RECURSIVE decode(_)
decode(b) ==
    IF b = <<>> THEN Ok(<<>>)
    ELSE IF b[1] < 128
    THEN LET r == decode(Tail(b))
         IN IF r.exc # "" THEN r ELSE Ok(<<b[1]>> \o r.val)
    ELSE IF b[1] \in 194 .. 223 /\ Len(b) >= 2 /\ b[2] \in 128 .. 191
    THEN LET r == decode(SubSeq(b, 3, Len(b)))
         IN IF r.exc # "" THEN r
            ELSE Ok(<<(b[1] - 192) * 64 + (b[2] - 128)>> \o r.val)
    ELSE Raise("UnicodeDecodeError")

\* _unpack_rq: the filename of a request
unpack_rq(expected_opcode, p) ==
    LET received_opcode == unpack_opcode(p) IN
    IF received_opcode.exc # "" THEN received_opcode
    ELSE IF received_opcode.val # expected_opcode THEN Raise("TFTPValueError")
    ELSE IF p.size < 2 + Len(p.name) + 1 THEN Raise("ValueError")
    ELSE decode(p.name)

unpack_rrq(p) == unpack_rq(RRQ, p)
unpack_wrq(p) == unpack_rq(WRQ, p)

\* do_request: pc, the exception that ended it, the packets it sent itself
\* from the ephemeral socket, and the transfer function it called
DrIdle == [pc |-> "idle", exc |-> "", out |-> <<>>, call |-> ""]
DrEnd(pc, exc, out) == [pc |-> pc, exc |-> exc, out |-> out, call |-> ""]

\* the RRQ and the WRQ branch up to the filename check they share
dr_filename(filename) ==
    IF filename.exc # "" THEN DrEnd("raised", filename.exc, <<>>)
    ELSE IF ~ is_ascii_printable(filename.val)
    THEN DrEnd("returned", "", <<pack_err(ACCESS_VIOLATION, InvalidFilenameMsg).val>>)
    ELSE DrEnd("returned", "", <<>>)

do_request(data) ==
    LET opcode == unpack_opcode(data) IN
    IF opcode.exc # "" THEN DrEnd("raised", opcode.exc, <<>>)
    ELSE IF opcode.val = RRQ
    THEN LET filename == unpack_rrq(data) IN
         IF filename.exc = "" /\ filename.val = <<>>
         THEN [pc |-> "send_dir", exc |-> "", out |-> <<>>, call |-> "send_dir"]
         ELSE dr_filename(filename)
    ELSE IF opcode.val = WRQ
    THEN dr_filename(unpack_wrq(data))
    ELSE DrEnd("returned", "", <<pack_err(ILLEGAL_OPERATION, IllegalOperationMsg).val>>)

\* nothing in flight, nothing dispatched
NetIdle == [older |-> "", race |-> FALSE, lost |-> <<>>, duped |-> 0]
NoNet == c2s = <<>> /\ s2c = <<>> /\ wire = <<>> /\ net = NetIdle
NoDispatch == request = NoPkt /\ root = {} /\ dr = DrIdle

(* ------------------------------------------------------------------ *)
(* Initial states: one entry point is called.  A run starts at its     *)
(* first block, or in the state the loop is in when it has moved       *)
(* start_block - 1 full blocks and waits for the next datagram.        *)
(* ------------------------------------------------------------------ *)
GoodName == <<102>>
BadName == <<233>>

Base(b0) == (b0 - 1) * MAX_DATA_LEN
SrcLens(b0) == {Base(b0) + k * MAX_DATA_LEN + t : k \in 0 .. MaxFullBlocks, t \in TailLens}

\* the record of a step: its input, the packets it sent, the block number
\* and the byte count before it, and the input of the step before it
Step(inp, out, blk, n) ==
    [rcvd |-> inp, out |-> out, blk |-> blk, pos |-> n, prev |-> last.rcvd]
Step0(out, blk, n) ==
    [rcvd |-> NoInput, out |-> out, blk |-> blk, pos |-> n, prev |-> NoInput]

Terminal == {"returned", "raised"}

InitRecv(f) ==
    /\ fn = f
    /\ src_len = 0
    /\ remote_file \in IF f = "client_get_file" /\ start_block = 1
                       THEN {GoodName, BadName} ELSE {GoodName}
    /\ LET dest == IF start_block = 1 THEN {NoFile, OldFile}
                   ELSE {File(Sl("stream", 0, Base(start_block)))}
           pc0 == IF start_block = 1 THEN "start" ELSE "recvfrom"
       IN IF f = "server_receive_file"
          THEN /\ srv_file \in dest
               /\ cli_file = NoFile
               /\ srf = [SrfIdle EXCEPT !.pc = pc0, !.next_block_number = start_block]
               /\ cgf = CgfIdle
          ELSE /\ cli_file \in dest
               /\ srv_file = NoFile
               /\ cgf = [CgfIdle EXCEPT !.pc = pc0, !.next_block_number = start_block]
               /\ srf = SrfIdle
    /\ ssf = SsfIdle /\ cpf = CpfIdle /\ sd = SdIdle
    /\ last = Step0(<<>>, 0, 0)

InitSend(f) ==
    /\ fn = f
    /\ src_len \in SrcLens(start_block)
    /\ remote_file \in IF f = "client_put_file" /\ start_block = 1
                       THEN {GoodName, BadName} ELSE {GoodName}
    /\ srv_file = IF f = "server_send_file" THEN File(Sl("stream", 0, src_len)) ELSE NoFile
    /\ cli_file = IF f = "client_put_file" THEN File(Sl("stream", 0, src_len)) ELSE NoFile
    /\ srf = SrfIdle /\ cgf = CgfIdle
    /\ LET r1 == ssf_block([SsfIdle EXCEPT !.pos = Base(start_block)], start_block, src_len)
           r2 == cpf_block([CpfIdle EXCEPT !.pos = Base(start_block)], start_block, src_len)
           r3 == sd_block([SdIdle EXCEPT !.offset = Base(start_block),
                                         !.block_number = start_block], src_len)
           r == IF f = "server_send_file" THEN r1
                ELSE IF f = "client_put_file" THEN r2 ELSE r3
       IN IF start_block = 1
          THEN /\ ssf = [SsfIdle EXCEPT !.pc = IF f = "server_send_file" THEN "start" ELSE "idle"]
               /\ cpf = [CpfIdle EXCEPT !.pc = IF f = "client_put_file" THEN "start" ELSE "idle"]
               /\ sd = [SdIdle EXCEPT !.pc = IF f = "send_dir" THEN "start" ELSE "idle"]
               /\ last = Step0(<<>>, 0, 0)
          ELSE /\ r.s.pc = "recvfrom"
               /\ ssf = IF f = "server_send_file" THEN r1.s ELSE SsfIdle
               /\ cpf = IF f = "client_put_file" THEN r2.s ELSE CpfIdle
               /\ sd = IF f = "send_dir" THEN r3.s ELSE SdIdle
               /\ last = Step0(r.out, start_block - 1, Base(start_block))

\* no listener, no codec run, no second send loop, no addresses
ListenerIdle == [pc |-> "idle", sockets |-> 0]
CodecIdle == [pc |-> "idle", fun |-> "", fields |-> <<>>, buffer |-> <<>>,
              result |-> Ok(<<>>)]
TidIdle == [peer |-> "", from |-> "", to |-> ""]
NoExtras ==
    /\ listener = ListenerIdle /\ threads = <<>>
    /\ codec = CodecIdle
    /\ last2 = Step0(<<>>, 0, 0)
    /\ tid = TidIdle

Init ==
    /\ start_block \in StartBlocks
    /\ late = <<>>
    /\ NoNet /\ NoDispatch /\ srf2 = SrfIdle /\ NoExtras
    /\ \/ \E f \in {"server_receive_file", "client_get_file"} : InitRecv(f)
       \/ \E f \in {"server_send_file", "client_put_file", "send_dir"} : InitSend(f)

(* ------------------------------------------------------------------ *)
(* Steps                                                               *)
(* ------------------------------------------------------------------ *)
SRF_Start ==
    /\ srf.pc = "start"
    /\ LET r == srf_start(srf, srv_file)
       IN /\ srf' = r.s
          /\ srv_file' = r.file
          /\ last' = Step(NoInput, r.out, srf.next_block_number, 0)
    /\ UNCHANGED xvars
    /\ UNCHANGED <<fn, remote_file, src_len, start_block, cli_file, ssf, cgf, cpf, sd, late>>

SRF_Recv ==
    /\ srf.pc = "recvfrom"
    /\ \E inp \in RecvInputs(srf.next_block_number, BLen(srv_file.content),
                             srf.next_block_number - start_block) :
         LET r == srf_recv(srf, srv_file, inp)
         IN /\ srf' = r.s
            /\ srv_file' = r.file
            /\ last' = Step(inp, r.out, srf.next_block_number, BLen(srv_file.content))
    /\ UNCHANGED xvars
    /\ UNCHANGED <<fn, remote_file, src_len, start_block, cli_file, ssf, cgf, cpf, sd, late>>

CGF_Start ==
    /\ cgf.pc = "start"
    /\ LET r == cgf_start(cgf, cli_file, remote_file)
       IN /\ cgf' = r.s
          /\ cli_file' = r.file
          /\ last' = Step(NoInput, r.out, cgf.next_block_number, 0)
    /\ UNCHANGED xvars
    /\ UNCHANGED <<fn, remote_file, src_len, start_block, srv_file, ssf, srf, cpf, sd, late>>

CGF_Recv ==
    /\ cgf.pc = "recvfrom"
    /\ \E inp \in RecvInputs(cgf.next_block_number, BLen(cli_file.content),
                             cgf.next_block_number - start_block) :
         LET r == cgf_recv(cgf, cli_file, inp)
         IN /\ cgf' = r.s
            /\ cli_file' = r.file
            /\ last' = Step(inp, r.out, cgf.next_block_number, BLen(cli_file.content))
    /\ UNCHANGED xvars
    /\ UNCHANGED <<fn, remote_file, src_len, start_block, srv_file, ssf, srf, cpf, sd, late>>

SSF_Start ==
    /\ ssf.pc = "start"
    /\ LET r == ssf_start(ssf, src_len)
       IN /\ ssf' = r.s
          /\ last' = Step(NoInput, r.out, ssf.block_number, ssf.pos)
    /\ UNCHANGED xvars
    /\ UNCHANGED <<fn, remote_file, src_len, start_block, srv_file, cli_file, srf, cgf, cpf, sd, late>>

SSF_Recv ==
    /\ ssf.pc = "recvfrom"
    /\ \E inp \in SendInputs(ssf.block_number) :
         LET r == ssf_recv(ssf, inp, src_len)
         IN /\ ssf' = r.s
            /\ last' = Step(inp, r.out, ssf.block_number, ssf.pos)
    /\ UNCHANGED xvars
    /\ UNCHANGED <<fn, remote_file, src_len, start_block, srv_file, cli_file, srf, cgf, cpf, sd, late>>

CPF_Start ==
    /\ cpf.pc = "start"
    /\ LET r == cpf_start(cpf, remote_file)
       IN /\ cpf' = r.s
          /\ last' = Step(NoInput, r.out, cpf.next_block_number, cpf.pos)
    /\ UNCHANGED xvars
    /\ UNCHANGED <<fn, remote_file, src_len, start_block, srv_file, cli_file, ssf, srf, cgf, sd, late>>

CPF_Handshake ==
    /\ cpf.pc = "handshake"
    /\ \E inp \in SendInputs(0) :
         LET r == cpf_handshake(cpf, inp, remote_file, src_len)
         IN /\ cpf' = r.s
            /\ last' = Step(inp, r.out, cpf.next_block_number, cpf.pos)
    /\ UNCHANGED xvars
    /\ UNCHANGED <<fn, remote_file, src_len, start_block, srv_file, cli_file, ssf, srf, cgf, sd, late>>

CPF_Recv ==
    /\ cpf.pc = "recvfrom"
    /\ \E inp \in SendInputs(cpf.next_block_number) :
         LET r == cpf_recv(cpf, inp, src_len)
         IN /\ cpf' = r.s
            /\ last' = Step(inp, r.out, cpf.next_block_number, cpf.pos)
    /\ UNCHANGED xvars
    /\ UNCHANGED <<fn, remote_file, src_len, start_block, srv_file, cli_file, ssf, srf, cgf, sd, late>>

SD_Start ==
    /\ sd.pc = "start"
    /\ LET r == sd_start(sd, src_len)
       IN /\ sd' = r.s
          /\ last' = Step(NoInput, r.out, sd.block_number, sd.offset)
    /\ UNCHANGED xvars
    /\ UNCHANGED <<fn, remote_file, src_len, start_block, srv_file, cli_file, ssf, srf, cgf, cpf, late>>

SD_Recv ==
    /\ sd.pc = "recvfrom"
    /\ \E inp \in SendInputs(sd.block_number) :
         LET r == sd_recv(sd, inp, src_len)
         IN /\ sd' = r.s
            /\ last' = Step(inp, r.out, sd.block_number, sd.offset)
    /\ UNCHANGED xvars
    /\ UNCHANGED <<fn, remote_file, src_len, start_block, srv_file, cli_file, ssf, srf, cgf, cpf, late>>

\* the pc of the entry point that runs
Pc ==
    IF fn = "server_send_file" THEN ssf.pc
    ELSE IF fn = "server_receive_file" THEN srf.pc
    ELSE IF fn = "client_get_file" THEN cgf.pc
    ELSE IF fn = "client_put_file" THEN cpf.pc
    ELSE sd.pc

\* The peer, having seen no reply, sends its last datagram again after the
\* loop has returned and its socket is closed: nobody receives it.
Closed ==
    /\ Pc \in Terminal
    /\ last.rcvd.kind = "packet"
    /\ Len(late) < MaxLate
    /\ late' = Append(late, last.rcvd.pkt)
    /\ UNCHANGED xvars
    /\ UNCHANGED <<fn, remote_file, src_len, start_block, srv_file, cli_file,
                   ssf, srf, cgf, cpf, sd, last>>

Next ==
    \/ SRF_Start \/ SRF_Recv
    \/ CGF_Start \/ CGF_Recv
    \/ SSF_Start \/ SSF_Recv
    \/ CPF_Start \/ CPF_Handshake \/ CPF_Recv
    \/ SD_Start \/ SD_Recv
    \/ Closed

Spec == Init /\ [][Next]_vars

\* Every recvfrom returns: with a datagram, or with a timeout after
\* INACTIVITY_TIMEOUT (settimeout precedes every recvfrom).  So a loop that
\* can take a step takes one.
SpecFair == Spec /\ WF_vars(Next)


(* ------------------------------------------------------------------ *)
(* A client and a server function on a loss-free network.  The run is  *)
(* a GET (client_get_file against server_send_file) or a PUT           *)
(* (client_put_file against server_receive_file); the request starts   *)
(* the server function.  Every datagram sent is delivered, once and in *)
(* order.  recvfrom times out only when nothing is in flight, since    *)
(* neither side sends unless it has received something or timed out.   *)
(* ------------------------------------------------------------------ *)
InitNet ==
    /\ fn \in {"GET", "PUT"}
    /\ start_block = 1
    /\ src_len \in SrcLens(1)
    /\ remote_file \in {GoodName, BadName}
    /\ IF fn = "GET"
       THEN /\ srv_file = File(Sl("stream", 0, src_len))
            /\ cli_file \in {NoFile, OldFile}
            /\ cgf = [CgfIdle EXCEPT !.pc = "start"]
            /\ ssf = [SsfIdle EXCEPT !.pc = "start"]
            /\ cpf = CpfIdle /\ srf = SrfIdle
       ELSE /\ cli_file = File(Sl("stream", 0, src_len))
            /\ srv_file \in {NoFile, OldFile}
            /\ cpf = [CpfIdle EXCEPT !.pc = "start"]
            /\ srf = [SrfIdle EXCEPT !.pc = "start"]
            /\ cgf = CgfIdle /\ ssf = SsfIdle
    /\ sd = SdIdle
    /\ last = Step0(<<>>, 0, 0)
    /\ late = <<>>
    /\ NoNet /\ NoDispatch /\ srf2 = SrfIdle /\ NoExtras

\* neither the files nor the locals of the four loops, the rest of the state
NetFrame == UNCHANGED <<fn, remote_file, src_len, start_block, sd, last, late,
                        request, root, dr, srf2, yvars>>

\* the datagram recvfrom returns next, and the channel without it
Arrived(ch) == Got(Head(ch))

Quiet == c2s = <<>> /\ s2c = <<>>

\* the four loops: their locals, their peer, and whether they wait in recvfrom
Loops == {"srf", "cpf", "ssf", "cgf"}
Locals(e) == IF e = "srf" THEN srf ELSE IF e = "cpf" THEN cpf
             ELSE IF e = "ssf" THEN ssf ELSE cgf
PeerOf(e) == IF e = "srf" THEN "cpf" ELSE IF e = "cpf" THEN "srf"
             ELSE IF e = "ssf" THEN "cgf" ELSE "ssf"
Waits(e) == Locals(e).pc \in {"handshake", "recvfrom"}

\* loop e has acted and waits again: the wait of its peer is now the older
Acted(e) == net' = [net EXCEPT !.older = PeerOf(e), !.race = FALSE]

N_CGF_Start ==
    /\ fn = "GET" /\ cgf.pc = "start"
    /\ LET r == cgf_start(cgf, cli_file, remote_file)
       IN /\ cgf' = r.s
          /\ cli_file' = r.file
          /\ c2s' = c2s \o r.out
          /\ wire' = wire \o r.out
    /\ UNCHANGED <<s2c, srv_file, ssf, srf, cpf>>
    /\ Acted("cgf")
    /\ NetFrame

\* the RRQ reaches the server: server_send_file is called
N_SSF_Start ==
    /\ fn = "GET" /\ ssf.pc = "start"
    /\ c2s # <<>> /\ Head(c2s).opcode = RRQ
    /\ LET r == ssf_start(ssf, src_len)
       IN /\ ssf' = r.s
          /\ s2c' = s2c \o r.out
          /\ wire' = wire \o r.out
    /\ c2s' = Tail(c2s)
    /\ UNCHANGED <<srv_file, cli_file, cgf, srf, cpf>>
    /\ Acted("ssf")
    /\ NetFrame

N_CGF_Recv ==
    /\ fn = "GET" /\ cgf.pc = "recvfrom"
    /\ s2c # <<>>
    /\ LET r == cgf_recv(cgf, cli_file, Arrived(s2c))
       IN /\ cgf' = r.s
          /\ cli_file' = r.file
          /\ c2s' = c2s \o r.out
          /\ wire' = wire \o r.out
    /\ s2c' = Tail(s2c)
    /\ UNCHANGED <<srv_file, ssf, srf, cpf>>
    /\ Acted("cgf")
    /\ NetFrame

N_SSF_Recv ==
    /\ fn = "GET" /\ ssf.pc = "recvfrom"
    /\ c2s # <<>>
    /\ LET r == ssf_recv(ssf, Arrived(c2s), src_len)
       IN /\ ssf' = r.s
          /\ s2c' = s2c \o r.out
          /\ wire' = wire \o r.out
    /\ c2s' = Tail(c2s)
    /\ UNCHANGED <<srv_file, cli_file, cgf, srf, cpf>>
    /\ Acted("ssf")
    /\ NetFrame

N_CPF_Start ==
    /\ fn = "PUT" /\ cpf.pc = "start"
    /\ LET r == cpf_start(cpf, remote_file)
       IN /\ cpf' = r.s
          /\ c2s' = c2s \o r.out
          /\ wire' = wire \o r.out
    /\ UNCHANGED <<s2c, srv_file, cli_file, ssf, srf, cgf>>
    /\ Acted("cpf")
    /\ NetFrame

\* the WRQ reaches the server: server_receive_file is called
N_SRF_Start ==
    /\ fn = "PUT" /\ srf.pc = "start"
    /\ c2s # <<>> /\ Head(c2s).opcode = WRQ
    /\ LET r == srf_start(srf, srv_file)
       IN /\ srf' = r.s
          /\ srv_file' = r.file
          /\ s2c' = s2c \o r.out
          /\ wire' = wire \o r.out
    /\ c2s' = Tail(c2s)
    /\ UNCHANGED <<cli_file, ssf, cgf, cpf>>
    /\ Acted("srf")
    /\ NetFrame

N_CPF_Recv ==
    /\ fn = "PUT" /\ cpf.pc \in {"handshake", "recvfrom"}
    /\ s2c # <<>>
    /\ LET r == IF cpf.pc = "handshake"
                THEN cpf_handshake(cpf, Arrived(s2c), remote_file, src_len)
                ELSE cpf_recv(cpf, Arrived(s2c), src_len)
       IN /\ cpf' = r.s
          /\ c2s' = c2s \o r.out
          /\ wire' = wire \o r.out
    /\ s2c' = Tail(s2c)
    /\ UNCHANGED <<srv_file, cli_file, ssf, srf, cgf>>
    /\ Acted("cpf")
    /\ NetFrame

N_SRF_Recv ==
    /\ fn = "PUT" /\ srf.pc = "recvfrom"
    /\ c2s # <<>>
    /\ LET r == srf_recv(srf, srv_file, Arrived(c2s))
       IN /\ srf' = r.s
          /\ srv_file' = r.file
          /\ s2c' = s2c \o r.out
          /\ wire' = wire \o r.out
    /\ c2s' = Tail(c2s)
    /\ UNCHANGED <<cli_file, ssf, cgf, cpf>>
    /\ Acted("srf")
    /\ NetFrame

\* what recvfrom's outcome inp makes loop e do
Recv(e, inp) ==
    IF e = "srf" THEN srf_recv(srf, srv_file, inp)
    ELSE IF e = "cgf" THEN cgf_recv(cgf, cli_file, inp)
    ELSE IF e = "ssf" THEN ssf_recv(ssf, inp, src_len)
    ELSE IF cpf.pc = "handshake" THEN cpf_handshake(cpf, inp, remote_file, src_len)
    ELSE cpf_recv(cpf, inp, src_len)

\* nothing is in flight and the peer has ended: the wait runs out
N_Timeout ==
    /\ Quiet
    /\ \E e \in {x \in Loops : Waits(x) /\ Locals(PeerOf(x)).pc \in Terminal} :
         LET r == Recv(e, Timeout)
         IN /\ srf' = IF e = "srf" THEN r.s ELSE srf
            /\ cpf' = IF e = "cpf" THEN r.s ELSE cpf
            /\ ssf' = IF e = "ssf" THEN r.s ELSE ssf
            /\ cgf' = IF e = "cgf" THEN r.s ELSE cgf
            /\ srv_file' = IF e = "srf" THEN r.file ELSE srv_file
            /\ cli_file' = IF e = "cgf" THEN r.file ELSE cli_file
            /\ c2s' = IF e \in {"cpf", "cgf"} THEN c2s \o r.out ELSE c2s
            /\ s2c' = IF e \in {"srf", "ssf"} THEN s2c \o r.out ELSE s2c
            /\ Acted(e)
            /\ wire' = wire \o r.out
    /\ NetFrame

NextNet ==
    \/ N_CGF_Start \/ N_SSF_Start \/ N_CGF_Recv \/ N_SSF_Recv
    \/ N_CPF_Start \/ N_SRF_Start \/ N_CPF_Recv \/ N_SRF_Recv
    \/ N_Timeout

SpecNet == InitNet /\ [][NextNet]_vars

(* ------------------------------------------------------------------ *)
(* The same two endpoints on a network that loses and duplicates       *)
(* datagrams.  Every recvfrom of every loop waits INACTIVITY_TIMEOUT   *)
(* (tftp.py:160, 209, 275, 363) and a datagram travels much faster     *)
(* than that.  So when nothing is in flight and both loops wait, the   *)
(* loop that began to wait first times out first.  When a sender has   *)
(* timed out and retransmitted, the wait of its receiver is younger by *)
(* about the time a datagram travels, and so is the retransmission:    *)
(* either may come first.                                              *)
(* ------------------------------------------------------------------ *)
MaxLost == 1
MaxDup == 1

L_Lose ==
    /\ Len(net.lost) < MaxLost
    /\ \/ /\ c2s # <<>>
          /\ c2s' = Tail(c2s)
          /\ net' = [net EXCEPT !.lost = Append(@, Head(c2s))]
          /\ UNCHANGED s2c
       \/ /\ s2c # <<>>
          /\ s2c' = Tail(s2c)
          /\ net' = [net EXCEPT !.lost = Append(@, Head(s2c))]
          /\ UNCHANGED c2s
    /\ UNCHANGED <<wire, srv_file, cli_file, ssf, srf, cgf, cpf>>
    /\ NetFrame

L_Dup ==
    /\ net.duped < MaxDup
    /\ \/ /\ c2s # <<>> /\ Head(c2s).opcode \notin {RRQ, WRQ}
          /\ c2s' = <<Head(c2s)>> \o c2s
          /\ UNCHANGED s2c
       \/ /\ s2c # <<>>
          /\ s2c' = <<Head(s2c)>> \o s2c
          /\ UNCHANGED c2s
    /\ net' = [net EXCEPT !.duped = @ + 1]
    /\ UNCHANGED <<wire, srv_file, cli_file, ssf, srf, cgf, cpf>>
    /\ NetFrame

\* the datagrams in flight towards loop x
In(x) == IF x \in {"cpf", "cgf"} THEN s2c ELSE c2s

\* the wait of loop x is the next to run out (N_Timeout has the case of a
\* peer that has ended with nothing in flight): nothing is on its way to x,
\* and its peer has nothing to answer and began to wait later, or has not
\* been reached by the request, or has closed its socket; or a
\* retransmission is on its way and the timer of x runs out before
TimesOut(x) ==
    /\ Waits(x)
    /\ ~ (Quiet /\ Locals(PeerOf(x)).pc \in Terminal)
    /\ \/ /\ In(x) = <<>>
          /\ IF Waits(PeerOf(x)) THEN In(PeerOf(x)) = <<>> /\ net.older = x
             ELSE IF Locals(PeerOf(x)).pc \in Terminal THEN TRUE
             ELSE In(PeerOf(x)) = <<>>
       \/ net.race /\ net.older = x

\* a request sent again goes to the listening port, not to the socket of
\* the session it has already started
NotRequest(p) == p.opcode \notin {RRQ, WRQ}
ToSession(e, out) ==
    IF Locals(PeerOf(e)).pc = "start" THEN out ELSE SelectSeq(out, NotRequest)

L_Timeout ==
    /\ \E e \in {x \in Loops : TimesOut(x)} :
         LET r == Recv(e, Timeout)
         IN /\ srf' = IF e = "srf" THEN r.s ELSE srf
            /\ cpf' = IF e = "cpf" THEN r.s ELSE cpf
            /\ ssf' = IF e = "ssf" THEN r.s ELSE ssf
            /\ cgf' = IF e = "cgf" THEN r.s ELSE cgf
            /\ srv_file' = IF e = "srf" THEN r.file ELSE srv_file
            /\ cli_file' = IF e = "cgf" THEN r.file ELSE cli_file
            /\ c2s' = IF e \in {"cpf", "cgf"} THEN c2s \o ToSession(e, r.out) ELSE c2s
            /\ s2c' = IF e \in {"srf", "ssf"} THEN s2c \o r.out ELSE s2c
            /\ net' = [net EXCEPT !.older = PeerOf(e),
                                  !.race = ToSession(e, r.out) # <<>> /\ Waits(PeerOf(e))]
            /\ wire' = wire \o r.out
    /\ NetFrame

NextLossy == NextNet \/ L_Lose \/ L_Dup \/ L_Timeout

\* a request that cannot be packed never reaches the network; files of up
\* to three blocks
InitLossy ==
    /\ InitNet
    /\ remote_file = GoodName
    /\ src_len <= 2 * MAX_DATA_LEN + 488

SpecLossy == InitLossy /\ [][NextLossy]_vars

(* ------------------------------------------------------------------ *)
(* The dispatcher: main() hands one datagram from the listening port   *)
(* to do_request in a thread of its own (server.py:275-277).  When     *)
(* do_request calls send_dir, the step runs send_dir up to its first   *)
(* recvfrom and SD_Recv takes it from there.  srv_file is the file     *)
(* named GoodName in the server's directory.                           *)
(* ------------------------------------------------------------------ *)
MissingName == <<103>>
\* "../outside.txt", "/etc/passwd", "sub/../../x", "a/b"
DotDotName == <<46, 46, 47, 111, 117, 116, 115, 105, 100, 101, 46, 116, 120, 116>>
AbsoluteName == <<47, 101, 116, 99, 47, 112, 97, 115, 115, 119, 100>>
ClimbingName == <<115, 117, 98, 47, 46, 46, 47, 46, 46, 47, 120>>
NestedName == <<97, 47, 98>>
\* a control character, and the UTF-8 bytes of U+00E9 (BadName is a lone
\* byte 0xE9, which is not UTF-8)
ControlName == <<1>>
Utf8Name == <<195, 169>>

ReqNames == {<<>>, GoodName, MissingName, DotDotName, AbsoluteName, ClimbingName,
             NestedName, ControlName, Utf8Name, BadName}

\* a request as a peer packs it: opcode, name, NUL, mode, NUL
Rq(op, nm) == Pkt(op, 0, <<>>, nm, 2 + Len(nm) + 1 + Len(DEFAULT_MODE) + 1)

Requests ==
    {Rq(op, nm) : op \in {RRQ, WRQ}, nm \in ReqNames}
    \cup {Pkt(op, 0, <<>>, GoodName, 2 + Len(GoodName)) : op \in {RRQ, WRQ}}
    \cup {Pkt(DATA, 1, Sl("stream", 0, 488), <<>>, 4 + 488),
          Pkt(ACK, 0, <<>>, <<>>, 4),
          Pkt(ERROR, 1, <<>>, <<>>, 20),
          Pkt(OACK, 0, <<>>, <<>>, 4),
          Pkt(0, 0, <<>>, <<>>, 4),
          Pkt(7, 0, <<>>, <<>>, 4),
          Pkt(9, 0, <<>>, <<>>, 4),
          Pkt(0, 0, <<>>, <<>>, 1)}

InitDispatch ==
    /\ fn = "do_request"
    /\ request \in Requests
    /\ srv_file \in {NoFile, OldFile}
    /\ root = IF srv_file.exists THEN {GoodName} ELSE {}
    /\ dr = [DrIdle EXCEPT !.pc = "start"]
    /\ src_len \in SrcLens(1)
    /\ start_block = 1
    /\ remote_file = <<>>
    /\ cli_file = NoFile
    /\ ssf = SsfIdle /\ srf = SrfIdle /\ cgf = CgfIdle /\ cpf = CpfIdle /\ sd = SdIdle
    /\ last = Step0(<<>>, 0, 0)
    /\ late = <<>>
    /\ NoNet /\ srf2 = SrfIdle /\ NoExtras

DoRequest ==
    /\ dr.pc = "start"
    /\ LET r == do_request(request)
           t == sd_start(sd, src_len)
       IN /\ dr' = r
          /\ sd' = IF r.call = "send_dir" THEN t.s ELSE sd
          /\ last' = IF r.call = "send_dir"
                     THEN Step(NoInput, t.out, sd.block_number, sd.offset)
                     ELSE Step(NoInput, r.out, 0, 0)
    /\ UNCHANGED <<fn, remote_file, src_len, start_block, srv_file, cli_file,
                   ssf, srf, cgf, cpf, late, c2s, s2c, wire, request, root, srf2, net, yvars>>

NextDispatch == DoRequest \/ SD_Recv

SpecDispatch == InitDispatch /\ [][NextDispatch]_vars

(* ------------------------------------------------------------------ *)
(* Two threads in server_receive_file with the same local_file: the    *)
(* client sent its WRQ twice and main() started a thread for each      *)
(* (server.py:275-277).  The client sends its DATA to the first        *)
(* session; the second is offered none.  srv_file is the file as its   *)
(* path shows it, which is what the first session's handle shows too   *)
(* as long as the second session creates, truncates or removes the     *)
(* file only while it is empty or while the first holds no handle on   *)
(* it; the steps of the second session are restricted to these.        *)
(* ------------------------------------------------------------------ *)
Recv2Inputs ==
    {Timeout, OSError,
     Got(Pkt(ERROR, 1, <<>>, <<>>, 20)),
     Got(Pkt(ACK, 0, <<>>, <<>>, 4)),
     Got(Pkt(9, 0, <<>>, <<>>, 4))}

InitTwo ==
    /\ start_block = 1
    /\ InitRecv("server_receive_file")
    /\ late = <<>>
    /\ NoNet /\ NoDispatch /\ NoExtras
    /\ srf2 = [SrfIdle EXCEPT !.pc = "start"]

SRF2_Start ==
    /\ srf2.pc = "start"
    /\ LET r == srf_start(srf2, srv_file)
       IN /\ srf.pc # "recvfrom" \/ r.file = srv_file
          /\ srf2' = r.s
          /\ srv_file' = r.file
    /\ UNCHANGED <<fn, remote_file, src_len, start_block, cli_file, ssf, srf, cgf, cpf,
                   sd, last, late, c2s, s2c, wire, request, root, dr, net, yvars>>

SRF2_Recv ==
    /\ srf2.pc = "recvfrom"
    /\ \E inp \in Recv2Inputs :
         LET r == srf_recv(srf2, srv_file, inp)
         IN /\ srf.pc # "recvfrom" \/ r.file = srv_file
            /\ srf2' = r.s
            /\ srv_file' = r.file
    /\ UNCHANGED <<fn, remote_file, src_len, start_block, cli_file, ssf, srf, cgf, cpf,
                   sd, last, late, c2s, s2c, wire, request, root, dr, net, yvars>>

NextTwo == SRF_Start \/ SRF_Recv \/ SRF2_Start \/ SRF2_Recv

SpecTwo == InitTwo /\ [][NextTwo]_vars

(* ------------------------------------------------------------------ *)
(* The listener (server.py:265-277): main() creates the listening      *)
(* socket, then forever takes a datagram from it and starts a thread   *)
(* that runs do_request on it.  A thread creates its own socket, runs  *)
(* do_request and, for a directory request, send_dir; it is blocked    *)
(* while send_dir waits in recvfrom.  Sockets are numbered in the      *)
(* order of their creation; the listening socket is number 1.          *)
(* ------------------------------------------------------------------ *)
\* threads main() starts in one run
MaxThreads == 3

ListenRequests ==
    {Rq(RRQ, <<>>), Rq(WRQ, ControlName),
     Pkt(ACK, 0, <<>>, <<>>, 4), Pkt(9, 0, <<>>, <<>>, 4)}

\* what a thread waiting in send_dir may receive
ThreadInputs(b) == {Timeout, Got(Pkt(ACK, b, <<>>, <<>>, 4))}

\* threads blocked in recvfrom
Blocked == {i \in 1 .. Len(threads) : threads[i].pc = "recvfrom"}

\* threading.Thread(target=do_request, args=(data, ...)).start()
Thread(data) ==
    [data |-> data, pc |-> "start", sock |-> 0, exc |-> "", sd |-> SdIdle,
     busy |-> Cardinality(Blocked)]

InitListen ==
    /\ fn = "main"
    /\ listener = [pc |-> "recvfrom", sockets |-> 1]
    /\ threads = <<>>
    /\ src_len \in {0, MAX_DATA_LEN}
    /\ start_block = 1
    /\ remote_file = <<>>
    /\ srv_file = NoFile /\ cli_file = NoFile
    /\ ssf = SsfIdle /\ srf = SrfIdle /\ cgf = CgfIdle /\ cpf = CpfIdle /\ sd = SdIdle
    /\ last = Step0(<<>>, 0, 0)
    /\ late = <<>>
    /\ NoNet /\ NoDispatch /\ srf2 = SrfIdle
    /\ codec = CodecIdle /\ last2 = Step0(<<>>, 0, 0) /\ tid = TidIdle

ListenFrame ==
    UNCHANGED <<fn, remote_file, src_len, start_block, srv_file, cli_file,
                ssf, srf, cgf, cpf, sd, last, late,
                c2s, s2c, wire, request, root, dr, srf2, net, codec, last2, tid>>

\* one turn of main's loop: recvfrom returns, the thread is started and
\* main is back in recvfrom
Main_Recv ==
    /\ listener.pc = "recvfrom"
    /\ Len(threads) < MaxThreads
    /\ \E data \in ListenRequests : threads' = Append(threads, Thread(data))
    /\ listener' = listener
    /\ ListenFrame

\* mutant: the thread works on the listening socket
new_socket_mut(n) == 1

\* socket(AF_INET, SOCK_DGRAM) in do_request: the next socket
new_socket(n) == n + 1

\* a thread runs do_request up to its return or to send_dir's first recvfrom
Thread_Run ==
    /\ \E i \in 1 .. Len(threads) :
         /\ threads[i].pc = "start"
         /\ LET r == do_request(threads[i].data)
                t == sd_start(SdIdle, src_len)
                sock == new_socket(listener.sockets)
            IN /\ listener' = [listener EXCEPT !.sockets = @ + 1]
               /\ threads' = [threads EXCEPT ![i] =
                    [@ EXCEPT !.sock = sock,
                              !.exc = r.exc,
                              !.pc = IF r.call = "send_dir" THEN t.s.pc ELSE r.pc,
                              !.sd = IF r.call = "send_dir" THEN t.s ELSE @]]
    /\ ListenFrame

\* a blocked thread's recvfrom returns
Thread_Recv ==
    /\ \E i \in Blocked :
         \E inp \in ThreadInputs(threads[i].sd.block_number) :
           LET r == sd_recv(threads[i].sd, inp, src_len)
           IN threads' = [threads EXCEPT ![i] = [@ EXCEPT !.sd = r.s, !.pc = r.s.pc]]
    /\ listener' = listener
    /\ ListenFrame

NextListen == Main_Recv \/ Thread_Run \/ Thread_Recv

SpecListen == InitListen /\ [][NextListen]_vars

(* ------------------------------------------------------------------ *)
(* The codec on bytes (tftp.py:403-497).  A buffer is a sequence of    *)
(* numbers 0..255, a text a sequence of code points.  The transfer     *)
(* loops above work on the fields of a packet; here every function is  *)
(* what it does to the bytes.                                          *)
(* ------------------------------------------------------------------ *)
\* struct.pack('!H', n) and its inverse at position i of a buffer
u16(n) == <<n \div 256, n % 256>>

\* mutant: little-endian
from_u16_mut(b, i) == b[i] + b[i + 1] * 256

from_u16(b, i) == b[i] * 256 + b[i + 1]

\* str.encode(): UTF-8 of code points below 2048
RECURSIVE encode(_)
encode(txt) ==
    IF txt = <<>> THEN <<>>
    ELSE IF txt[1] < 128 THEN <<txt[1]>> \o encode(Tail(txt))
    ELSE <<192 + (txt[1] \div 64), 128 + (txt[1] % 64)>> \o encode(Tail(txt))

unpack_opcode_bytes(packet) ==
    IF Len(packet) < 2 THEN Raise("struct.error")
    ELSE IF from_u16(packet, 1) \in RRQ .. OACK THEN Ok(from_u16(packet, 1))
    ELSE Raise("TFTPValueError")

pack_rq_bytes(opcode, filename, mode) ==
    IF ~ is_ascii_printable(filename) THEN Raise("TFTPValueError")
    ELSE Ok(u16(opcode) \o encode(filename) \o <<0>> \o encode(mode) \o <<0>>)

unpack_rq_bytes(expected_opcode, packet) ==
    LET received_opcode == unpack_opcode_bytes(packet)
        nuls == {i \in 3 .. Len(packet) : packet[i] = 0}
        delim_pos == CHOOSE i \in nuls : \A j \in nuls : i <= j
        filename == decode(SubSeq(packet, 3, delim_pos - 1))
        mode == decode(SubSeq(packet, delim_pos + 1, Len(packet) - 1))
    IN IF received_opcode.exc # "" THEN received_opcode
       ELSE IF received_opcode.val # expected_opcode THEN Raise("TFTPValueError")
       ELSE IF nuls = {} THEN Raise("ValueError")
       ELSE IF filename.exc # "" THEN filename
       ELSE IF mode.exc # "" THEN mode
       ELSE Ok(<<filename.val, mode.val>>)

pack_dat_bytes(block_number, data) ==
    IF Len(data) > MAX_DATA_LEN THEN Raise("TFTPValueError")
    ELSE IF block_number \notin 0 .. MaxBlockNumber THEN Raise("struct.error")
    ELSE Ok(u16(DATA) \o u16(block_number) \o data)

unpack_dat_bytes(packet) ==
    IF Len(packet) < 4 THEN Raise("struct.error")
    ELSE IF from_u16(packet, 1) # DATA THEN Raise("TFTPValueError")
    ELSE Ok(<<from_u16(packet, 3), SubSeq(packet, 5, Len(packet))>>)

pack_ack_bytes(block_number) ==
    IF block_number \notin 0 .. MaxBlockNumber THEN Raise("struct.error")
    ELSE Ok(u16(ACK) \o u16(block_number))

\* the block number, as a tuple of one
unpack_ack_bytes(packet) ==
    IF Len(packet) > 4 THEN Raise("TFTPValueError")
    ELSE IF Len(packet) < 4 THEN Raise("struct.error")
    ELSE Ok(<<from_u16(packet, 3)>>)

pack_err_bytes(error_num, error_msg) ==
    IF ~ is_ascii_printable(error_msg) THEN Raise("TFTPValueError")
    ELSE IF error_num \notin 0 .. MaxBlockNumber THEN Raise("struct.error")
    ELSE Ok(u16(ERROR) \o u16(error_num) \o encode(error_msg) \o <<0>>)

unpack_err_bytes(packet) ==
    LET error_msg == decode(SubSeq(packet, 5, Len(packet) - 1))
    IN IF Len(packet) < 4 THEN Raise("struct.error")
       ELSE IF from_u16(packet, 1) # ERROR THEN Raise("TFTPValueError")
       ELSE IF error_msg.exc # "" THEN error_msg
       ELSE Ok(<<from_u16(packet, 3), error_msg.val>>)

\* the pack and the unpack function of each kind of packet
CodecFuns == {"rrq", "wrq", "dat", "ack", "err"}
Pack(fun, fields) ==
    IF fun = "rrq" THEN pack_rq_bytes(RRQ, fields[1], fields[2])
    ELSE IF fun = "wrq" THEN pack_rq_bytes(WRQ, fields[1], fields[2])
    ELSE IF fun = "dat" THEN pack_dat_bytes(fields[1], fields[2])
    ELSE IF fun = "ack" THEN pack_ack_bytes(fields[1])
    ELSE pack_err_bytes(fields[1], fields[2])
Unpack(fun, packet) ==
    IF fun = "opcode" THEN unpack_opcode_bytes(packet)
    ELSE IF fun = "rrq" THEN unpack_rq_bytes(RRQ, packet)
    ELSE IF fun = "wrq" THEN unpack_rq_bytes(WRQ, packet)
    ELSE IF fun = "dat" THEN unpack_dat_bytes(packet)
    ELSE IF fun = "ack" THEN unpack_ack_bytes(packet)
    ELSE unpack_err_bytes(packet)

\* valid fields: texts, block numbers and error codes, payloads
Texts == {<<>>, GoodName, NestedName, <<9, 32, 126>>, DEFAULT_MODE, InvalidFilenameMsg}
Numbers == {0, 1, 255, 256, 65280, MaxBlockNumber}
Payloads == {[i \in 1 .. n |-> b] : n \in {0, 1, 2, MAX_DATA_LEN}, b \in {0, 10, 255}}
ValidFields(fun) ==
    IF fun \in {"rrq", "wrq"} THEN Texts \X Texts
    ELSE IF fun = "dat" THEN Numbers \X Payloads
    ELSE IF fun = "ack" THEN {<<n>> : n \in Numbers}
    ELSE Numbers \X Texts

\* buffers as a peer may send them: nothing, half an opcode field or an
\* opcode field, then up to three more bytes
Tails == UNION {[1 .. n -> {0, 1, 97}] : n \in 0 .. 3}
Buffers == {h \o t : h \in {<<>>, <<0>>} \cup {u16(op) : op \in {0, RRQ, WRQ, DATA, ACK, ERROR, OACK, 9}},
                     t \in Tails}

InitCodec ==
    /\ fn = "codec"
    /\ \/ \E fun \in CodecFuns : \E fields \in ValidFields(fun) :
            codec = [CodecIdle EXCEPT !.pc = "fields", !.fun = fun, !.fields = fields]
       \/ \E fun \in CodecFuns \cup {"opcode"} : \E buffer \in Buffers :
            codec = [CodecIdle EXCEPT !.pc = "buffer", !.fun = fun, !.buffer = buffer]
    /\ src_len = 0
    /\ start_block = 1
    /\ remote_file = <<>>
    /\ srv_file = NoFile /\ cli_file = NoFile
    /\ ssf = SsfIdle /\ srf = SrfIdle /\ cgf = CgfIdle /\ cpf = CpfIdle /\ sd = SdIdle
    /\ last = Step0(<<>>, 0, 0)
    /\ late = <<>>
    /\ NoNet /\ NoDispatch /\ srf2 = SrfIdle
    /\ listener = ListenerIdle /\ threads = <<>>
    /\ last2 = Step0(<<>>, 0, 0) /\ tid = TidIdle

CodecFrame ==
    UNCHANGED <<fn, remote_file, src_len, start_block, srv_file, cli_file,
                ssf, srf, cgf, cpf, sd, last, late,
                c2s, s2c, wire, request, root, dr, srf2, net,
                listener, threads, last2, tid>>

Codec_Pack ==
    /\ codec.pc = "fields"
    /\ LET r == Pack(codec.fun, codec.fields)
       IN codec' = IF r.exc # ""
                   THEN [codec EXCEPT !.pc = "raised", !.result = r]
                   ELSE [codec EXCEPT !.pc = "packed", !.buffer = r.val]
    /\ CodecFrame

Codec_Unpack ==
    /\ codec.pc \in {"packed", "buffer"}
    /\ codec' = [codec EXCEPT !.pc = IF codec.pc = "packed" THEN "roundtrip" ELSE "unpacked",
                              !.result = Unpack(codec.fun, codec.buffer)]
    /\ CodecFrame

NextCodec == Codec_Pack \/ Codec_Unpack

SpecCodec == InitCodec /\ [][NextCodec]_vars

(* ------------------------------------------------------------------ *)
(* server_send_file and send_dir side by side: both are given the same *)
(* byte stream and, at every step, the same reply or timeout.  `last`  *)
(* records the step of server_send_file, `last2` that of send_dir.     *)
(* ------------------------------------------------------------------ *)
InitPair ==
    /\ fn = "send_pair"
    /\ start_block \in StartBlocks
    /\ src_len \in SrcLens(start_block)
    /\ remote_file = <<>>
    /\ srv_file = File(Sl("stream", 0, src_len))
    /\ cli_file = NoFile
    /\ srf = SrfIdle /\ cgf = CgfIdle /\ cpf = CpfIdle
    /\ LET r1 == ssf_block([SsfIdle EXCEPT !.pos = Base(start_block)], start_block, src_len)
           r3 == sd_block([SdIdle EXCEPT !.offset = Base(start_block),
                                         !.block_number = start_block], src_len)
       IN IF start_block = 1
          THEN /\ ssf = [SsfIdle EXCEPT !.pc = "start"]
               /\ sd = [SdIdle EXCEPT !.pc = "start"]
               /\ last = Step0(<<>>, 0, 0)
               /\ last2 = Step0(<<>>, 0, 0)
          ELSE /\ ssf = r1.s
               /\ sd = r3.s
               /\ last = Step0(r1.out, start_block - 1, Base(start_block))
               /\ last2 = Step0(r3.out, start_block - 1, Base(start_block))
    /\ late = <<>>
    /\ NoNet /\ NoDispatch /\ srf2 = SrfIdle
    /\ listener = ListenerIdle /\ threads = <<>> /\ codec = CodecIdle /\ tid = TidIdle

PairFrame ==
    UNCHANGED <<fn, remote_file, src_len, start_block, srv_file, cli_file,
                srf, cgf, cpf, late,
                c2s, s2c, wire, request, root, dr, srf2, net,
                listener, threads, codec, tid>>

Pair_Start ==
    /\ ssf.pc = "start" /\ sd.pc = "start"
    /\ LET r1 == ssf_start(ssf, src_len)
           r3 == sd_start(sd, src_len)
       IN /\ ssf' = r1.s
          /\ sd' = r3.s
          /\ last' = Step(NoInput, r1.out, ssf.block_number, ssf.pos)
          /\ last2' = Step(NoInput, r3.out, sd.block_number, sd.offset)
    /\ PairFrame

\* a loop that has ended receives nothing and sends nothing
Pair_Recv ==
    /\ ssf.pc = "recvfrom" \/ sd.pc = "recvfrom"
    /\ \E inp \in SendInputs(IF ssf.pc = "recvfrom" THEN ssf.block_number
                             ELSE sd.block_number) :
         LET r1 == ssf_recv(ssf, inp, src_len)
             r3 == sd_recv(sd, inp, src_len)
         IN /\ IF ssf.pc = "recvfrom"
               THEN /\ ssf' = r1.s
                    /\ last' = Step(inp, r1.out, ssf.block_number, ssf.pos)
               ELSE /\ ssf' = ssf
                    /\ last' = Step(inp, <<>>, ssf.block_number, ssf.pos)
            /\ IF sd.pc = "recvfrom"
               THEN /\ sd' = r3.s
                    /\ last2' = Step(inp, r3.out, sd.block_number, sd.offset)
               ELSE /\ sd' = sd
                    /\ last2' = Step(inp, <<>>, sd.block_number, sd.offset)
    /\ PairFrame

NextPair == Pair_Start \/ Pair_Recv

SpecPair == InitPair /\ [][NextPair]_vars

(* ------------------------------------------------------------------ *)
(* The receive loops with the addresses of their datagrams.  recvfrom  *)
(* returns the sender of a datagram together with its bytes; `tid`     *)
(* keeps the sender of the first datagram of the session (peer), the   *)
(* sender of the datagram of the last step (from) and the address the  *)
(* packets of the last step were sent to (to).                         *)
(* ------------------------------------------------------------------ *)
ListenAddr == "listener"
PeerAddr == "peer"
StrangerAddr == "stranger"
Senders(inp) == IF inp.kind = "packet" THEN {PeerAddr, StrangerAddr} ELSE {""}

\* server_receive_file is given client_addr; client_get_file knows the
\* listening address only, unless the transfer is already under way
InitTid ==
    /\ start_block \in StartBlocks
    /\ late = <<>>
    /\ NoNet /\ NoDispatch /\ srf2 = SrfIdle
    /\ listener = ListenerIdle /\ threads = <<>> /\ codec = CodecIdle
    /\ last2 = Step0(<<>>, 0, 0)
    /\ \E f \in {"server_receive_file", "client_get_file"} :
         /\ InitRecv(f)
         /\ tid = IF f = "client_get_file" /\ start_block = 1
                  THEN TidIdle
                  ELSE [peer |-> PeerAddr, from |-> "", to |-> PeerAddr]

TidFrame ==
    UNCHANGED <<fn, remote_file, src_len, start_block, ssf, cpf, sd, late,
                c2s, s2c, wire, request, root, dr, srf2, net,
                listener, threads, codec, last2>>

\* the RRQ goes to server_addr
T_CGF_Start ==
    /\ cgf.pc = "start"
    /\ LET r == cgf_start(cgf, cli_file, remote_file)
       IN /\ cgf' = r.s
          /\ cli_file' = r.file
          /\ last' = Step(NoInput, r.out, cgf.next_block_number, 0)
          /\ tid' = [tid EXCEPT !.to = IF r.out # <<>> THEN ListenAddr ELSE @]
    /\ UNCHANGED <<srv_file, srf>>
    /\ TidFrame

\* `packet, server_address = sock.recvfrom(...)`, and the reply goes to
\* server_address
T_CGF_Recv ==
    /\ cgf.pc = "recvfrom"
    /\ \E inp \in RecvInputs(cgf.next_block_number, BLen(cli_file.content),
                             cgf.next_block_number - start_block) :
       \E server_address \in Senders(inp) :
         LET r == cgf_recv(cgf, cli_file, inp)
         IN /\ cgf' = r.s
            /\ cli_file' = r.file
            /\ last' = Step(inp, r.out, cgf.next_block_number, BLen(cli_file.content))
            /\ tid' = [peer |-> IF tid.peer = "" THEN server_address ELSE tid.peer,
                       from |-> server_address,
                       to |-> IF r.out # <<>> THEN server_address ELSE tid.to]
    /\ UNCHANGED <<srv_file, srf>>
    /\ TidFrame

\* ACK 0 goes to client_addr
T_SRF_Start ==
    /\ srf.pc = "start"
    /\ LET r == srf_start(srf, srv_file)
       IN /\ srf' = r.s
          /\ srv_file' = r.file
          /\ last' = Step(NoInput, r.out, srf.next_block_number, 0)
          /\ tid' = [tid EXCEPT !.to = IF r.out # <<>> THEN tid.peer ELSE @]
    /\ UNCHANGED <<cli_file, cgf>>
    /\ TidFrame

\* `packet, _ = transfer_sock.recvfrom(...)`, and the reply goes to
\* client_addr
T_SRF_Recv ==
    /\ srf.pc = "recvfrom"
    /\ \E inp \in RecvInputs(srf.next_block_number, BLen(srv_file.content),
                             srf.next_block_number - start_block) :
       \E sender \in Senders(inp) :
         LET r == srf_recv(srf, srv_file, inp)
         IN /\ srf' = r.s
            /\ srv_file' = r.file
            /\ last' = Step(inp, r.out, srf.next_block_number, BLen(srv_file.content))
            /\ tid' = [peer |-> tid.peer,
                       from |-> sender,
                       to |-> IF r.out # <<>> THEN tid.peer ELSE tid.to]
    /\ UNCHANGED <<cli_file, cgf>>
    /\ TidFrame

NextTid == T_CGF_Start \/ T_CGF_Recv \/ T_SRF_Start \/ T_SRF_Recv

SpecTid == InitTid /\ [][NextTid]_vars

(* ------------------------------------------------------------------ *)
(* Vocabulary of the properties                                        *)
(* ------------------------------------------------------------------ *)
RecvFns == {"server_receive_file", "client_get_file"}
SendFns == {"server_send_file", "client_put_file", "send_dir"}
RetryFns == {"server_send_file", "client_put_file"}

\* destination file, expected block and success flag of the receive loop
Dest == IF fn = "server_receive_file" THEN srv_file ELSE cli_file
Expected == IF fn = "server_receive_file" THEN srf.next_block_number
            ELSE cgf.next_block_number
Success == IF fn = "server_receive_file" THEN srf.success ELSE cgf.success

\* current block, read position, chunk and outcome of the send loop
SendBlk == IF fn = "server_send_file" THEN ssf.block_number
           ELSE IF fn = "client_put_file" THEN cpf.next_block_number
           ELSE sd.block_number
SendPos == IF fn = "server_send_file" THEN ssf.pos
           ELSE IF fn = "client_put_file" THEN cpf.pos
           ELSE sd.offset
SendData == IF fn = "server_send_file" THEN ssf.data_block
            ELSE IF fn = "client_put_file" THEN cpf.data
            ELSE sd.data
SendResult == IF fn = "server_send_file" THEN ssf.result
              ELSE IF fn = "client_put_file" THEN cpf.result
              ELSE sd.result
Attempt == IF fn = "server_send_file" THEN ssf.attempt ELSE cpf.attempt

\* a well-formed DATA / ACK datagram
IsData(inp) == inp.kind = "packet" /\ inp.pkt.opcode = DATA /\ inp.pkt.size >= 4
IsAck(inp) == inp.kind = "packet" /\ inp.pkt.opcode = ACK /\ inp.pkt.size = 4
IsAckOf(inp, b) == IsAck(inp) /\ inp.pkt.block = b
DataPkts(out) == {i \in 1 .. Len(out) : out[i].opcode = DATA}
AckPkt(b) == Pkt(ACK, b, <<>>, <<>>, 4)
DataPkt(b, d) == Pkt(DATA, b, d, <<>>, 4 + BLen(d))

\* this step is a step of the loop (it received something or timed out)
LoopStep == late' = late /\ Pc \in {"recvfrom", "handshake"}

C2_SendEndsAfterShortBlock ==
    (fn \in RetryFns /\ SendResult = "sent") =>
        /\ last.blk >= 1
        /\ IsAckOf(last.rcvd, last.blk)
        /\ BLen(SendData) < MAX_DATA_LEN
        /\ (src_len % MAX_DATA_LEN = 0 => SendData = <<>>)

(* ------------------------------------------------------------------ *)
(* C3  Retransmission idempotence.  A datagram arrives for the second  *)
(* time in a row when the loop receives it again, or when the peer     *)
(* sends it again after the loop has returned.                         *)
(* ------------------------------------------------------------------ *)
\* the step before this one accepted DATA block last.blk
Accepted == fn \in RecvFns /\ IsData(last.rcvd) /\ last.rcvd.pkt.block = last.blk

\* this step is the second arrival in a row of that datagram
Redelivered ==
    \/ LoopStep /\ last'.rcvd = last.rcvd
    \/ late = <<>> /\ late' = <<last.rcvd.pkt>>

\* written once, advanced once, acknowledged twice
OnceAndAckedTwice ==
    /\ Dest.content = Dest'.content
    /\ Expected = last.blk + 1 /\ Expected' = Expected
    /\ last.out = <<AckPkt(last.blk)>>
    /\ late' = late /\ last'.out = <<AckPkt(last.blk)>>

\* C3 as claimed: every block, full-size or final
C3_Original ==
    [][(Accepted /\ Redelivered) => OnceAndAckedTwice]_vars

\* C3 as amended: every full-size block; the loop ends on the final block,
\* so a repeat of the final block is answered by nobody
C3_FullBlockIdempotent ==
    [][(Accepted /\ BLen(last.rcvd.pkt.data) = MAX_DATA_LEN /\ Redelivered) =>
         /\ OnceAndAckedTwice
         /\ BLen(Dest'.content) = last.pos + MAX_DATA_LEN
      ]_vars

\* witness: a full block was received twice in a row
C3_Witness ==
    /\ fn \in RecvFns
    /\ IsData(last.rcvd) /\ BLen(last.rcvd.pkt.data) = MAX_DATA_LEN
    /\ last.prev = last.rcvd
    /\ last.rcvd.pkt.block = last.blk - 1
    /\ last.out = <<AckPkt(last.rcvd.pkt.block)>>
    /\ BLen(Dest.content) = last.pos


(* ------------------------------------------------------------------ *)
(* C4  Lock-step.  Once a send loop has transmitted (or, in            *)
(* client_put_file, while it holds block 0 during the WRQ handshake),  *)
(* its block number and its read position change, and a DATA packet    *)
(* for another block is transmitted, only in a step that received an   *)
(* ACK whose block number equals the current block number.             *)
(* ------------------------------------------------------------------ *)
C4_LockStep ==
    [][(fn \in SendFns /\ LoopStep) =>
        /\ (SendBlk' # SendBlk \/ SendPos' # SendPos) => IsAckOf(last'.rcvd, SendBlk)
        /\ \A i \in DataPkts(last'.out) :
             \/ last'.out[i] = DataPkt(SendBlk, SendData)
             \/ /\ IsAckOf(last'.rcvd, SendBlk)
                /\ last'.out[i].block = SendBlk'
                /\ SendBlk' # SendBlk
      ]_vars

\* witness: a matching ACK moved the loop on to the next block
C4_Witness ==
    /\ fn \in SendFns
    /\ Pc = "recvfrom"
    /\ last.blk >= 1
    /\ IsAckOf(last.rcvd, last.blk)
    /\ SendBlk = last.blk + 1
    /\ SendPos > last.pos
    /\ last.out = <<DataPkt(SendBlk, SendData)>>

(* ------------------------------------------------------------------ *)
(* C5  After block 65535 was accepted, DATA with block number 1 is the *)
(* next expected block: its payload is written and ACK 1 is sent.      *)
(* ------------------------------------------------------------------ *)
C5_WrapAccepted ==
    [][(fn \in RecvFns /\ LoopStep /\ Expected > MaxBlockNumber
          /\ IsData(last'.rcvd) /\ last'.rcvd.pkt.block = 1) =>
         /\ Dest' = Write(Dest, last'.rcvd.pkt.data)
         /\ last'.out = <<AckPkt(1)>>
         /\ Pc' # "raised"
      ]_vars

C7_TimeoutRetransmits ==
    [][/\ (fn \in RetryFns /\ LoopStep /\ Pc = "recvfrom" /\ last'.rcvd = Timeout) =>
            IF Attempt + 1 < MAX_RETRIES
            THEN /\ last'.out = <<DataPkt(SendBlk, SendData)>>
                 /\ last'.out = last.out
                 /\ Pc' = "recvfrom"
                 /\ Attempt' = Attempt + 1
            ELSE /\ last'.out = <<>>
                 /\ Pc' = "returned"
                 /\ SendResult' = "max_retries"
       /\ (fn \in RetryFns /\ LoopStep /\ Pc = "recvfrom" /\ Pc' = "recvfrom") =>
            /\ Attempt' < MAX_RETRIES
            /\ last'.out # <<>> =>
                 Attempt' = IF SendBlk' = SendBlk /\ SendPos' = SendPos
                            THEN Attempt + 1 ELSE 0
       /\ (fn \in RetryFns /\ Pc \in Terminal) => last' = last
      ]_vars

\* witness: the fifth transmission of a block timed out like the fourth
C7_Witness ==
    /\ fn \in RetryFns
    /\ SendResult = "max_retries"
    /\ last.blk >= 1
    /\ last.rcvd = Timeout /\ last.prev = Timeout
    /\ Attempt = MAX_RETRIES - 1
    /\ last.out = <<>>

(* ------------------------------------------------------------------ *)
(* C8  In the send loop an ACK for another block, or a well-formed     *)
(* packet that is neither ACK nor ERROR, makes the loop only wait      *)
(* again: no retransmission, no retry consumed, no abort.              *)
(* ------------------------------------------------------------------ *)
Harmless(inp, b) ==
    \/ IsAck(inp) /\ inp.pkt.block # b
    \/ inp.kind = "packet" /\ inp.pkt.size >= 4 /\ inp.pkt.opcode \in {RRQ, WRQ, DATA, OACK}

C8_HarmlessOnlyWaits ==
    [][(fn \in RetryFns /\ LoopStep /\ Pc = "recvfrom" /\ Harmless(last'.rcvd, SendBlk)) =>
         /\ last'.out = <<>>
         /\ Attempt' = Attempt
         /\ Pc' = "recvfrom"
      ]_vars

(* ------------------------------------------------------------------ *)
(* C9  In a receive loop a DATA packet whose block number is neither   *)
(* the expected nor the previous one is not acknowledged, not written  *)
(* and does not end the session.                                       *)
(* ------------------------------------------------------------------ *)
C9_StrayDataIgnored ==
    [][(fn \in RecvFns /\ LoopStep /\ IsData(last'.rcvd)
          /\ last'.rcvd.pkt.block \notin {Expected, Expected - 1}) =>
         /\ last'.out = <<>>
         /\ Dest' = Dest
         /\ Expected' = Expected
         /\ Pc' = "recvfrom"
      ]_vars

(* ------------------------------------------------------------------ *)
(* C10  PUT handshake.  client_put_file first sends the WRQ alone.     *)
(* While it waits for ACK 0, a step sends DATA only if it received     *)
(* ACK 0; a timeout, an ACK for another block or a packet of another   *)
(* kind makes it send the WRQ again unless the WRQ has been sent       *)
(* MAX_RETRIES times, in which case it returns as a failure; an ERROR  *)
(* makes it return as a failure; no failure sends anything.            *)
(* ------------------------------------------------------------------ *)
WrqPkt == pack_wrq(remote_file).val

C10_Unanswered(inp) ==
    \/ inp = Timeout
    \/ IsAck(inp) /\ inp.pkt.block # 0
    \/ inp.kind = "packet" /\ inp.pkt.size >= 4 /\ inp.pkt.opcode \in {RRQ, WRQ, DATA, OACK}

C10_PutHandshake ==
    [][/\ (cpf.pc = "start" /\ cpf' # cpf) =>
            /\ DataPkts(last'.out) = {}
            /\ cpf'.pc = "handshake" => (last'.out = <<WrqPkt>> /\ cpf'.attempt = 0)
       /\ (cpf.pc = "handshake" /\ LoopStep) =>
            LET inp == last'.rcvd IN
            /\ DataPkts(last'.out) # {} => IsAckOf(inp, 0)
            /\ cpf'.pc = "recvfrom" => IsAckOf(inp, 0)
            /\ C10_Unanswered(inp) =>
                 IF cpf.attempt + 1 < MAX_RETRIES
                 THEN /\ last'.out = <<WrqPkt>>
                      /\ cpf'.pc = "handshake"
                      /\ cpf'.attempt = cpf.attempt + 1
                 ELSE /\ last'.out = <<>>
                      /\ cpf'.pc = "returned"
                      /\ cpf'.result = "max_retries"
            /\ (inp.kind = "packet" /\ inp.pkt.opcode = ERROR) =>
                 /\ last'.out = <<>>
                 /\ cpf'.pc \in Terminal
                 /\ cpf'.result # "sent"
            /\ cpf'.pc = "handshake" => cpf'.attempt < MAX_RETRIES
      ]_vars

\* witness: the fifth WRQ went unanswered and the session gave up
C10_Witness ==
    /\ fn = "client_put_file"
    /\ cpf.result = "max_retries"
    /\ last.blk = 0
    /\ cpf.pos = 0
    /\ cpf.attempt = MAX_RETRIES - 1
    /\ last.rcvd = Timeout
    /\ last.out = <<>>

(* ------------------------------------------------------------------ *)
(* Vocabulary of the end-to-end properties                             *)
(* ------------------------------------------------------------------ *)
\* the DATA packets sent so far, in the order of sending
IsDataPkt(p) == p.opcode = DATA
WireData == SelectSeq(wire, IsDataPkt)
\* both functions of the run have returned or raised
BothEnded ==
    IF fn = "PUT" THEN cpf.pc \in Terminal /\ srf.pc \in Terminal
    ELSE cgf.pc \in Terminal /\ ssf.pc \in Terminal

(* ------------------------------------------------------------------ *)
(* C11  Loss-free PUT of a 0-byte file: when client_put_file and       *)
(* server_receive_file have both ended, the datagrams sent are exactly *)
(* WRQ, ACK 0, DATA block 1 with 0 bytes, ACK 1, the receive loop has  *)
(* ended with success and the destination exists and is empty.         *)
(* ------------------------------------------------------------------ *)
C11_EmptyPut ==
    (fn = "PUT" /\ src_len = 0 /\ remote_file = GoodName /\ BothEnded) =>
        /\ wire = <<WrqPkt, AckPkt(0), DataPkt(1, <<>>), AckPkt(1)>>
        /\ srf.success
        /\ srv_file = File(<<>>)

C13_PutOutcome ==
    (fn = "client_put_file" /\ cpf.pc \in Terminal) =>
        /\ cpf.result \in {"peer_error", "max_retries"} =>
             cpf_outcome(cpf) # cpf_outcome([cpf EXCEPT !.pc = "returned",
                                                        !.result = "sent", !.exc = ""])
        /\ cpf.result = "sent" =>
             cpf_outcome(cpf) = [exc |-> "", ret |-> Value(cpf.pos)]

(* ------------------------------------------------------------------ *)
(* C14  A successful client_get_file returns the number of bytes it    *)
(* wrote to the local file, the sum of the payload lengths it          *)
(* accepted.                                                           *)
(* ------------------------------------------------------------------ *)
C14_GetReturnsBytesWritten ==
    (fn = "client_get_file" /\ cgf.pc = "returned" /\ cgf.success) =>
        cgf.ret = BLen(cli_file.content)

(* ------------------------------------------------------------------ *)
(* Vocabulary of the properties of the dispatcher                      *)
(* ------------------------------------------------------------------ *)
\* do_request has handled the datagram
Handled == dr.pc # "start"
\* the datagram is a request with its filename and the NUL after it
IsRequest(op) ==
    /\ request.opcode = op
    /\ request.size >= 2 + Len(request.name) + 1
\* do_request answered with one ERROR packet of this code, sent nothing
\* else and called no transfer function
OnlyError(code) ==
    /\ dr.pc = "returned"
    /\ Len(dr.out) = 1
    /\ dr.out[1].opcode = ERROR /\ dr.out[1].block = code
    /\ dr.call = ""
    /\ sd = SdIdle

\* the path separator "/"
IsSlash(ch) == ch = 47
FirstSlash(path) ==
    LET idx == {i \in 1 .. Len(path) : IsSlash(path[i])}
    IN IF idx = {} THEN Len(path) + 1
       ELSE CHOOSE i \in idx : \A j \in idx : i <= j

\* walking the components of path from d levels below the root climbs
\* above the root
RECURSIVE Escapes(_, _)
Escapes(path, d) ==
    IF path = <<>> THEN FALSE
    ELSE LET k == FirstSlash(path)
             comp == SubSeq(path, 1, k - 1)
             rest == SubSeq(path, k + 1, Len(path))
             d2 == IF comp = <<46, 46>> THEN d - 1
                   ELSE IF comp \in {<<>>, <<46>>} THEN d
                   ELSE d + 1
         IN d2 < 0 \/ Escapes(rest, d2)

\* the filename resolves to a path outside the server's directory
Outside(name) == name # <<>> /\ (IsSlash(name[1]) \/ Escapes(name, 0))

(* ------------------------------------------------------------------ *)
(* C15  A datagram on the listening port whose opcode is not RRQ and   *)
(* not WRQ (DATA, ACK, ERROR, OACK, or a value that is no opcode)      *)
(* makes do_request send exactly one ERROR ILLEGAL_OPERATION (4) from  *)
(* the ephemeral socket and nothing else.                              *)
(* ------------------------------------------------------------------ *)
C15_IllegalOperation ==
    (Handled /\ request.size >= 2 /\ request.opcode \notin {RRQ, WRQ}) =>
        OnlyError(ILLEGAL_OPERATION)

(* ------------------------------------------------------------------ *)
(* C16  An RRQ or WRQ whose filename resolves outside the server's     *)
(* directory is answered with ERROR ACCESS_VIOLATION (2) and no        *)
(* transfer function, hence no file operation, is started for it.      *)
(* ------------------------------------------------------------------ *)
C16_PathSafety ==
    (Handled /\ (IsRequest(RRQ) \/ IsRequest(WRQ)) /\ Outside(request.name)) =>
        OnlyError(ACCESS_VIOLATION)

(* ------------------------------------------------------------------ *)
(* C17  An RRQ or WRQ with a non-empty filename that is not            *)
(* ASCII-printable or contains a path separator is answered with       *)
(* exactly one ERROR ACCESS_VIOLATION (2) and starts no transfer.      *)
(* ------------------------------------------------------------------ *)
C17_InvalidFilename ==
    (/\ Handled
     /\ IsRequest(RRQ) \/ IsRequest(WRQ)
     /\ request.name # <<>>
     /\ \/ ~ is_ascii_printable(request.name)
        \/ \E i \in 1 .. Len(request.name) : IsSlash(request.name[i])) =>
        OnlyError(ACCESS_VIOLATION)

(* ------------------------------------------------------------------ *)
(* C18  An RRQ that names a file which does not exist in the server's  *)
(* directory is answered with exactly one ERROR FILE_NOT_FOUND (1)     *)
(* and no other packet.                                                *)
(* ------------------------------------------------------------------ *)
C18_FileNotFound ==
    (/\ Handled
     /\ IsRequest(RRQ)
     /\ request.name \in {GoodName, MissingName}
     /\ request.name \notin root) =>
        OnlyError(FILE_NOT_FOUND)

(* ------------------------------------------------------------------ *)
(* C19  A WRQ that names a file which exists in the server's directory *)
(* is answered with ERROR FILE_EXISTS (6); no ACK 0 is sent and the    *)
(* file keeps its content.                                             *)
(* ------------------------------------------------------------------ *)
C19_FileExists ==
    (Handled /\ IsRequest(WRQ) /\ request.name \in root) =>
        /\ OnlyError(FILE_EXISTS)
        /\ \A i \in 1 .. Len(dr.out) : dr.out[i].opcode # ACK
        /\ srv_file = OldFile

(* ------------------------------------------------------------------ *)
(* C20  Transfer isolation.  With two receive sessions running, the    *)
(* failure of one, and what it does to its destination when it fails,  *)
(* leaves the other's destination alone: once a session has ended with *)
(* success, its destination exists and holds at least the full blocks  *)
(* the session wrote, whatever a session started for the same filename *)
(* by a retransmitted WRQ does.                                        *)
(* ------------------------------------------------------------------ *)
C20_TransferIsolation ==
    (srf.pc = "returned" /\ srf.success) =>
        /\ srv_file.exists
        /\ BLen(srv_file.content) >= (srf.next_block_number - 1) * MAX_DATA_LEN

C22_RoundTrip ==
    /\ codec.pc # "raised"
    /\ codec.pc = "roundtrip" =>
         /\ codec.result.exc = ""
         /\ codec.result.val = codec.fields

\* witness: a full DATA block with the highest block number went through
C22_Witness ==
    /\ codec.pc = "roundtrip"
    /\ codec.fun = "dat"
    /\ codec.fields[1] = MaxBlockNumber
    /\ Len(codec.fields[2]) = MAX_DATA_LEN
    /\ Len(codec.buffer) = 4 + MAX_DATA_LEN

(* ------------------------------------------------------------------ *)
(* C23  Every unpack function raises TFTPValueError, and returns no    *)
(* value, for a buffer that is too short for its kind (fewer than 4    *)
(* bytes for DATA and ACK, no NUL-terminated field for RRQ, WRQ and    *)
(* ERROR), whose opcode field is no known opcode, or, for ACK, that is *)
(* not exactly 4 bytes long.                                           *)
(* ------------------------------------------------------------------ *)
Malformed(fun, buffer) ==
    \/ fun \in {"dat", "ack"} /\ Len(buffer) < 4
    \/ fun \in {"rrq", "wrq"} /\ \A i \in 3 .. Len(buffer) : buffer[i] # 0
    \/ fun = "err" /\ \A i \in 5 .. Len(buffer) : buffer[i] # 0
    \/ Len(buffer) < 2
    \/ Len(buffer) >= 2 /\ from_u16(buffer, 1) \notin RRQ .. OACK
    \/ fun = "ack" /\ Len(buffer) # 4

C23_DecodeFailure ==
    (codec.pc = "unpacked" /\ Malformed(codec.fun, codec.buffer)) =>
        codec.result.exc = "TFTPValueError"

(* ------------------------------------------------------------------ *)
(* C24  In a send loop a received packet that cannot be decoded (an    *)
(* opcode that is no TFTP opcode, an ACK longer or shorter than 4      *)
(* bytes) does not end the session and is not answered with a          *)
(* retransmission: the loop waits again for the ACK of the same block. *)
(* ------------------------------------------------------------------ *)
Undecodable(inp) ==
    /\ inp.kind = "packet"
    /\ \/ inp.pkt.opcode \notin RRQ .. OACK
       \/ inp.pkt.opcode = ACK /\ inp.pkt.size # 4

C24_UndecodableOnlyWaits ==
    [][(fn \in SendFns /\ LoopStep /\ Pc = "recvfrom" /\ Undecodable(last'.rcvd)) =>
         /\ Pc' = "recvfrom"
         /\ last'.out = <<>>
         /\ SendBlk' = SendBlk
      ]_vars

(* ------------------------------------------------------------------ *)
(* C25  send_dir behaves like server_send_file on the same byte        *)
(* stream: given the same replies and timeouts, the two loops send the *)
(* same packets at every step, retransmit equally often before they    *)
(* give up, and end in the same way.                                   *)
(* ------------------------------------------------------------------ *)
C25_SendDirLikeSendFile ==
    /\ last2.out = last.out
    /\ sd.pc = ssf.pc
    /\ sd.result = ssf.result
    /\ sd.exc = ssf.exc

(* ------------------------------------------------------------------ *)
(* C26  Transfer-ID binding: once the first datagram of a session has  *)
(* fixed the peer address, every packet the session sends goes to that *)
(* address, and a datagram from any other address changes neither the  *)
(* expected block number, nor the destination file, nor whether the    *)
(* loop is waiting, nor the address replies are sent to, and is not    *)
(* answered.                                                           *)
(* ------------------------------------------------------------------ *)
C26_TransferIdBinding ==
    [][(fn \in RecvFns /\ Pc = "recvfrom" /\ tid.peer # "") =>
         /\ last'.out # <<>> => tid'.to = tid.peer
         /\ tid'.from = StrangerAddr =>
              /\ Expected' = Expected
              /\ Dest' = Dest
              /\ Pc' = Pc
              /\ last'.out = <<>>
              /\ tid'.to = tid.to
      ]_vars

(* ------------------------------------------------------------------ *)
(* C27  Block numbers of a send loop: the first DATA packet has block  *)
(* number 1; after the ACK of a full block the loop goes on, and the   *)
(* DATA packet it then sends has the block number of the acknowledged  *)
(* block plus 1, or 1 after 65535; every DATA packet sent has a block  *)
(* number in 1..65535.                                                 *)
(* ------------------------------------------------------------------ *)
C27_SendBlockNumbers ==
    [][/\ fn \in SendFns =>
            \A i \in DataPkts(last'.out) : last'.out[i].block \in 1 .. MaxBlockNumber
       /\ (fn \in SendFns /\ Pc \in {"start", "handshake"}) =>
            \A i \in DataPkts(last'.out) : last'.out[i].block = 1
       /\ (fn \in SendFns /\ LoopStep /\ Pc = "recvfrom" /\ IsAckOf(last'.rcvd, SendBlk)
             /\ BLen(SendData) = MAX_DATA_LEN) =>
            /\ Pc' # "raised"
            /\ \A i \in DataPkts(last'.out) :
                 last'.out[i].block = (SendBlk % MaxBlockNumber) + 1
      ]_vars

(* ------------------------------------------------------------------ *)
(* C29  Endpoint agreement on PUT: when client_put_file has ended on   *)
(* its success path, server_receive_file has ended with success and    *)
(* its destination file holds the bytes of the client's source file,   *)
(* whatever the length of the source.                                  *)
(* ------------------------------------------------------------------ *)
C29_PutAgreement ==
    (fn = "PUT" /\ cpf.pc = "returned" /\ cpf.result = "sent") =>
        /\ srf.pc = "returned"
        /\ srf.success
        /\ srv_file.exists
        /\ srv_file.content = cli_file.content

(* ------------------------------------------------------------------ *)
(* C28  Lost-packet recovery: when exactly one datagram of a transfer  *)
(* was lost, it was a DATA or an ACK packet, none was duplicated and   *)
(* both ends have ended, the transfer has succeeded: the receiver has  *)
(* ended with success, the sender has ended after its last block was   *)
(* acknowledged, and the destination holds the bytes of the source.    *)
(* ------------------------------------------------------------------ *)
OneLost ==
    /\ Len(net.lost) = 1
    /\ net.lost[1].opcode \in {DATA, ACK}
    /\ net.duped = 0

C28_LostPacketRecovery ==
    (OneLost /\ remote_file = GoodName /\ BothEnded) =>
        /\ cli_file.exists /\ srv_file.exists
        /\ cli_file.content = srv_file.content
        /\ IF fn = "GET"
           THEN cgf.pc = "returned" /\ cgf.success /\ ssf.result = "sent"
           ELSE srf.pc = "returned" /\ srf.success /\ cpf.result = "sent"

(* ------------------------------------------------------------------ *)
(* C30  GET integrity on a network that loses and duplicates           *)
(* datagrams: while client_get_file receives, its local file holds the *)
(* first next_block_number - 1 blocks of the served file, each once    *)
(* and in order; when it has returned with success, the local file     *)
(* holds exactly the bytes of the served file.                         *)
(* ------------------------------------------------------------------ *)
C30_GetIntegrity ==
    fn = "GET" =>
        /\ cgf.pc = "recvfrom" =>
             /\ cli_file.exists
             /\ cli_file.content = Sl("stream", 0, (cgf.next_block_number - 1) * MAX_DATA_LEN)
             /\ (cgf.next_block_number - 1) * MAX_DATA_LEN <= src_len
        /\ (cgf.pc = "returned" /\ cgf.success) =>
             /\ cli_file.exists
             /\ cli_file.content = srv_file.content
             /\ BLen(cli_file.content) = src_len

\* witness: a transfer of three blocks has succeeded although the first ACK
\* was lost, so that DATA block 1 was sent and received twice, and a later
\* datagram was duplicated
C30_Witness ==
    /\ fn = "GET"
    /\ cgf.pc = "returned" /\ cgf.success
    /\ src_len = 2 * MAX_DATA_LEN + 488
    /\ Len(net.lost) = 1 /\ net.lost[1] = AckPkt(1)
    /\ net.duped = 1
    /\ Cardinality(DataPkts(wire)) > 3

(* ------------------------------------------------------------------ *)
(* C31  client_get_file ends with success only in a step that receives *)
(* the DATA block it expects and writes its payload: a DATA packet     *)
(* with any other block number (a repeat of the previous block, or     *)
(* block 0 as the first packet) never completes the transfer.          *)
(* ------------------------------------------------------------------ *)
C31_SuccessOnlyOnExpectedBlock ==
    [][(fn = "client_get_file" /\ LoopStep /\ cgf'.success /\ ~ cgf.success) =>
         /\ IsData(last'.rcvd)
         /\ last'.rcvd.pkt.block = cgf.next_block_number
         /\ cli_file'.content = Cat(cli_file.content, last'.rcvd.pkt.data)
      ]_vars

(* ------------------------------------------------------------------ *)
(* C32  A GET that fails leaves a file that was at the destination     *)
(* path before the call as it was: if the local file exists with its   *)
(* old content when client_get_file is called, then whenever the call  *)
(* has ended without success the file holds that content.              *)
(* ------------------------------------------------------------------ *)
C32_FailedGetKeepsOldFile ==
    (fn = "client_get_file" /\ cli_file = OldFile) =>
        []((cgf.pc \in Terminal /\ ~ cgf.success) => cli_file = OldFile)

(* ------------------------------------------------------------------ *)
(* C33  Every send session over a finite source ends, whatever the     *)
(* peer sends: server_send_file, client_put_file and send_dir each     *)
(* reach their end (a return or an exception) in every run in which    *)
(* their recvfrom keeps returning.                                     *)
(* ------------------------------------------------------------------ *)
C33_SendTerminates ==
    (fn \in SendFns) => <>(Pc \in Terminal)

====
